---- MODULE Spec2Model ----
(***************************************************************************)
(* rekords-api: the local mirror of a Discogs "for sale" inventory, the    *)
(* cart, and the settlement of Stripe checkout.session.completed events.   *)
(*                                                                         *)
(* The store is PostgreSQL behind Prisma (schema.prisma, provider          *)
(* "postgresql"); an interactive prisma.$transaction runs at the default   *)
(* isolation level READ COMMITTED: a read sees the rows committed at the   *)
(* time of the statement plus the transaction's own writes, a written row  *)
(* stays locked until the transaction ends, an insert that collides with   *)
(* an uncommitted insert on a unique index waits for the other             *)
(* transaction, and nothing a transaction wrote is visible before commit.  *)
(* Calls to Discogs and Stripe are outside the store: a rollback does not  *)
(* undo them.                                                              *)
(***************************************************************************)
EXTENDS Integers, Sequences, FiniteSets, TLC

\* ---------------------------------------------------------------- bounds
MaxQty == 2          \* largest stock of a record in an initial mirror
MaxListingId == 4    \* listing ids Discogs hands out are 1..MaxListingId
MaxDeliveries == 2   \* webhook deliveries in one behaviour
MaxSyncs == 1        \* runs of syncDiscogsInventory in one behaviour
MaxCartOps == 1      \* cart service calls in one behaviour
PerPage == 2          \* listings on one page of the inventory (per_page)
MaxCartCalls == 2     \* cart requests in one behaviour of SpecCart
MaxGuestItems == 2    \* elements of guestCartItems in SpecCart

\* ---------------------------------------------------------------- values
Null == 0                       \* a NULL discogsListingId
NoRec == 0                      \* a line item without metadata.dbRecordId
NoUser == "none"                \* a session without metadata.userId
Procs == {1, 2}                 \* concurrent webhook requests
Users == {"u1", "u2"}

RecordStatus == {"FOR_SALE", "SOLD", "DRAFT"}

\* The checkout sessions Stripe may deliver: id, metadata.userId and the
\* line items (metadata.dbRecordId, quantity) in their order.
Sessions ==
  { [id |-> "c1", userId |-> "u1",   items |-> << [rid |-> 1, qty |-> 1] >>],
    [id |-> "c2", userId |-> "u2",   items |-> << [rid |-> 1, qty |-> 1], [rid |-> 2, qty |-> 1] >>],
    [id |-> "c3", userId |-> NoUser, items |-> << [rid |-> 2, qty |-> 1] >>],
    [id |-> "c4", userId |-> "u1",   items |-> << [rid |-> 2, qty |-> 1], [rid |-> NoRec, qty |-> 1] >>],
    [id |-> "c5", userId |-> "u2",   items |-> << [rid |-> 3, qty |-> 1], [rid |-> 1, qty |-> 1] >>],
    [id |-> "c6", userId |-> "u1",   items |-> << [rid |-> 1, qty |-> 2] >>],
    [id |-> "c7", userId |-> "u2",   items |-> << [rid |-> 1, qty |-> 1] >>] }

CheckoutIds == {s.id : s \in Sessions}
SessionOf(c) == CHOOSE s \in Sessions : s.id = c

\* The sessions completed in one behaviour: one session delivered again and
\* again, or two sessions that buy the same record.
Scenarios == { {"c1"}, {"c2"}, {"c3"}, {"c4"}, {"c5"}, {"c6"},
               {"c1", "c7"}, {"c6", "c7"} }
NoSession == [id |-> "none", userId |-> NoUser, items |-> << >>]

VARIABLES
  events,       \* ids of the completed sessions Stripe delivers events for
  records,      \* table Record: id -> [quantity, status, listing, release, price]
  orders,       \* table Order: set of [id, checkoutId, userId]
  orderItems,   \* table OrderItem: set of [orderId, line, recordId, price, quantity]
  carts,        \* table Cart: the users that have a cart row
  cartItems,    \* table CartItem: set of [user, rid, qty]
  remote,       \* Discogs marketplace: live listing id -> [release, price]
  nextListing,  \* the next listing id Discogs hands out
  nextOrder,    \* the next Order id (cuid)
  deliveries,   \* webhook deliveries so far
  req,          \* per webhook request, the locals of handleCheckoutSessionCompleted:
                \*   pc      position in the handler
                \*   sess    the session of the event
                \*   idx     index of the line item being processed
                \*   rec     the `record` read for the current line item
                \*   client  discogsClient is non-null
                \*   tx      the uncommitted writes of its transaction
                \*   resp    HTTP status answered by handleStripeWebhook
                \*   log     the last console.error / console.log of the handler
                \*   calls   Discogs calls issued so far, in order (history)
                \*   mailed  the confirmation e-mail was sent (history)
                \*   conc    it passed the idempotency check while another
                \*           request for the same session was under way (history)
  failedIds,    \* checkout ids of which one delivery failed (history)
  mirror0,      \* the Record table of the initial state (history)
  sync,         \* the locals of the running syncDiscogsInventory:
                \*   pc        position in the run
                \*   page      currentPage
                \*   pages     totalPages
                \*   fetched   allListings.length
                \*   feed      allListings: listing id -> [release, price]
                \*   existing  existingRecords: record id -> row as read
                \*   del       idsToDelete
                \*   create    listing ids of recordsToCreate
                \*   upd       recordsToUpdate
                \*   result    what the last run returned
                \*   runs      runs started so far
  refresh,      \* the locals of a run of syncDiscogsInventory that
                \* refreshInventory started, like sync
  nextRecord,   \* the next Record id (cuid)
  cartOps,      \* cart service calls so far
  reply,        \* the last request of the cart routes and the status it
                \* was answered with
  cartCalls     \* the calls of getCart and addItemToCart under way, by
                \* process: op, pc, the arguments and the error thrown

vars == << events, records, orders, orderItems, carts, cartItems, remote,
           nextListing, nextOrder, deliveries, req, failedIds, mirror0, sync, refresh, nextRecord, cartOps, reply, cartCalls >>

store == << records, orders, orderItems, carts, cartItems >>

\* ------------------------------------------------------- store helpers
NoCols == [r \in {} |-> 0]
EmptyTx == [order |-> {}, items |-> {}, recs |-> NoCols, cartDel |-> {}]
NoRecord == [quantity |-> 0, status |-> "DRAFT", listing |-> Null, release |-> 0, price |-> 0]
Idle == [pc |-> "idle", sess |-> NoSession, idx |-> 0, rec |-> NoRecord,
         client |-> FALSE, tx |-> EmptyTx, resp |-> 0, log |-> "",
         calls |-> << >>, mailed |-> FALSE, conc |-> FALSE]

TxPcs == {"tx_order", "item_read", "item_write", "rem_delete", "rem_create",
          "clear_cart", "commit"}
InTx(q) == req[q].pc \in TxPcs

\* A row another open transaction wrote is locked until that one ends.
RowLocked(p, rid) == \E q \in Procs \ {p} : rid \in DOMAIN req[q].tx.recs

\* tx.record.findUnique: the committed row with this transaction's own
\* column writes on top.
VisibleRecord(p, rid) ==
  IF rid \in DOMAIN req[p].tx.recs
    THEN [records[rid] EXCEPT !.quantity = req[p].tx.recs[rid].quantity,
                              !.status = req[p].tx.recs[rid].status,
                              !.listing = req[p].tx.recs[rid].listing]
    ELSE records[rid]

\* The committed Record table after the column writes of a transaction.
ApplyRecs(recs) ==
  [r \in DOMAIN records |->
     IF r \in DOMAIN recs
       THEN [records[r] EXCEPT !.quantity = recs[r].quantity,
                               !.status = recs[r].status,
                               !.listing = recs[r].listing]
       ELSE records[r]]

Item(p) == req[p].sess.items[req[p].idx]

\* ---------------------------------------------------------------- Init
\* What a run that did not get to its end returns.
Failure(message) == [success |-> FALSE, message |-> message]

SyncIdle == [pc |-> "idle", page |-> 0, pages |-> 0, fetched |-> 0,
             feed |-> NoCols, existing |-> NoCols, del |-> {},
             create |-> {}, upd |-> {}, result |-> Failure("no run"), runs |-> 0]

\* No request of the cart routes was answered yet.
NoReply == [op |-> "none", status |-> 0]

\* No call of the cart service under way.
NoCall == [op |-> "none", pc |-> "idle", user |-> NoUser, rid |-> NoRec, qty |-> 0,
           error |-> "none"]

InitRequests ==
  /\ req = [p \in Procs |-> Idle]
  /\ cartCalls = [p \in Procs |-> NoCall]
  /\ sync = SyncIdle
  /\ refresh = SyncIdle
  /\ nextRecord = 3
  /\ cartOps = 0
  /\ reply = NoReply
  /\ failedIds = {}
  /\ deliveries = 0
  /\ nextOrder = 1

\* The carts the sessions were created from.
InitialCartItems == { [user |-> "u1", rid |-> 1, qty |-> 1],
                      [user |-> "u2", rid |-> 1, qty |-> 1],
                      [user |-> "u2", rid |-> 2, qty |-> 1] }

\* The sessions that buy record 2.
BuyRecord2 ==
  {s.id : s \in {x \in Sessions : \E i \in 1..Len(x.items) : x.items[i].rid = 2}}

\* A mirror in step with Discogs: record 1 with stock 1..MaxQty listed as
\* listing 1, record 2 with stock 1 listed as listing 2 or, where a session
\* buys it, not listed.
Init ==
  /\ InitRequests
  /\ events \in Scenarios
  /\ \E q \in 1..MaxQty, l2 \in {Null, 2} :
       /\ l2 = Null => events \cap BuyRecord2 # {}
       /\ records =
            (1 :> [quantity |-> q, status |-> "FOR_SALE", listing |-> 1, release |-> 1, price |-> 1]) @@
            (2 :> [quantity |-> 1, status |-> "FOR_SALE", listing |-> l2, release |-> 2, price |-> 2])
       /\ remote = [l \in ({1, l2} \ {Null}) |-> [release |-> l, price |-> l]]
  /\ orders = {}
  /\ orderItems = {}
  /\ carts = Users
  /\ cartItems = InitialCartItems
  /\ nextListing = 3
  /\ mirror0 = records

\* ------------------------------------------------- handleStripeWebhook
\* Math.round(record.price * 100): the price snapshot in cents.
Cents(price) == price * 100

\* Mutant: the lookup is by the wrong column and finds nothing.
OrderExists_ByUser(c) == \E o \in orders : o.userId = c

\* prisma.order.findUnique({ where: { stripeCheckoutId } }) on committed rows.
OrderExists(c) == \E o \in orders : o.checkoutId = c

\* Mutant: the comparison is strict.
NewStatus_Strict(newQuantity) == IF newQuantity < 0 THEN "SOLD" ELSE "FOR_SALE"

\* newStatus = newQuantity <= 0 ? 'SOLD' : 'FOR_SALE'
NewStatus(newQuantity) == IF newQuantity <= 0 THEN "SOLD" ELSE "FOR_SALE"

\* Mutant: the stock of the record is not compared with the quantity sold.
ItemValid_NoStockCheck(p) ==
  /\ Item(p).rid # NoRec
  /\ Item(p).rid \in DOMAIN records
  /\ VisibleRecord(p, Item(p).rid).status = "FOR_SALE"

\* The checks on a line item's record: the line item names it, it exists,
\* it is FOR_SALE and it has the stock.
ItemValid(p) ==
  /\ Item(p).rid # NoRec
  /\ Item(p).rid \in DOMAIN records
  /\ VisibleRecord(p, Item(p).rid).status = "FOR_SALE"
  /\ VisibleRecord(p, Item(p).rid).quantity >= Item(p).qty

\* The request is over: its locals are gone, the answer and the history stay.
Finished(r, pc, code, log) ==
  [r EXCEPT !.pc = pc, !.idx = 0, !.rec = NoRecord, !.client = FALSE,
            !.tx = EmptyTx, !.resp = code, !.log = log]

\* Mutant: the Order is created with prisma.order.create, outside the
\* transaction, and survives the rollback.
RolledBack_OrderOutsideTx(p) ==
  /\ orders' = orders \cup req[p].tx.order
  /\ UNCHANGED << records, orderItems, carts, cartItems >>

\* What a rollback leaves of the transaction's writes in the store.
RolledBack(p) == UNCHANGED store

\* The callback of prisma.$transaction threw: the transaction rolls back,
\* handleCheckoutSessionCompleted rethrows and handleStripeWebhook answers 500.
Fail(p, error) ==
  /\ req' = [req EXCEPT ![p] = Finished(@, "failed", 500, error)]
  /\ failedIds' = failedIds \cup {req[p].sess.id}
  /\ RolledBack(p)

\* handleCheckoutSessionCompleted returned without an order: handleStripeWebhook
\* answers 200.
Return(p, log) ==
  /\ req' = [req EXCEPT ![p] = Finished(@, "acked", 200, log)]
  /\ UNCHANGED << store, failedIds >>

\* The loop over lineItems.data moves on, or the loop is over.
NextItem(r) ==
  IF r.idx < Len(r.sess.items)
    THEN [r EXCEPT !.idx = r.idx + 1, !.pc = "item_read"]
    ELSE [r EXCEPT !.pc = "clear_cart"]

\* An event arrives; without metadata.userId the handler returns at once.
Receive(p, s) ==
  /\ req[p].pc \in {"idle", "acked", "settled", "failed"}
  /\ s.id \in events
  /\ deliveries < MaxDeliveries
  /\ deliveries' = deliveries + 1
  /\ req' = [req EXCEPT ![p] =
               IF s.userId = NoUser
                 THEN Finished([Idle EXCEPT !.sess = s], "acked", 200, "missing userId")
                 ELSE [Idle EXCEPT !.sess = s, !.pc = "idem"]]
  /\ UNCHANGED << events, store, remote, nextListing, nextOrder, failedIds, mirror0, sync, refresh, nextRecord, cartOps, reply, cartCalls >>

\* Another request for the same session has passed the idempotency check
\* and has neither committed nor failed yet.
Overlaps(p) ==
  \E q \in Procs \ {p} : /\ req[q].sess.id = req[p].sess.id
                          /\ req[q].pc \in {"line_items"} \cup TxPcs

\* The idempotency check, before the transaction.
IdempotencyCheck(p) ==
  /\ req[p].pc = "idem"
  /\ IF OrderExists(req[p].sess.id)
       THEN Return(p, "already processed")
       ELSE /\ req' = [req EXCEPT ![p].pc = "line_items", ![p].conc = Overlaps(p)]
            /\ UNCHANGED << store, failedIds >>
  /\ UNCHANGED << events, remote, nextListing, nextOrder, deliveries, mirror0, sync, refresh, nextRecord, cartOps, reply, cartCalls >>

\* stripe.checkout.sessions.listLineItems: it throws or returns no item
\* (the handler returns), or it returns the line items.
ListLineItems(p) ==
  /\ req[p].pc = "line_items"
  /\ \E ok \in BOOLEAN :
       IF ok /\ Len(req[p].sess.items) > 0
         THEN /\ req' = [req EXCEPT ![p].pc = "tx_order"]
              /\ UNCHANGED << store, failedIds >>
         ELSE Return(p, "no line items")
  /\ UNCHANGED << events, remote, nextListing, nextOrder, deliveries, mirror0, sync, refresh, nextRecord, cartOps, reply, cartCalls >>

\* tx.order.create waits while another open transaction holds an
\* uncommitted Order with the same stripeCheckoutId.
OrderKeyHeld(p) ==
  \E q \in Procs \ {p} : \E o \in req[q].tx.order : o.checkoutId = req[p].sess.id

\* The unique index on Order.stripeCheckoutId rejects the insert.
UniqueViolation(p) == OrderExists(req[p].sess.id)

\* 1. tx.order.create (unique stripeCheckoutId), then getDiscogsClient,
\* whose failure leaves discogsClient null.
CreateOrder(p) ==
  /\ req[p].pc = "tx_order"
  /\ ~OrderKeyHeld(p)
  /\ IF UniqueViolation(p)
       THEN /\ Fail(p, "unique constraint")
            /\ nextOrder' = nextOrder
       ELSE /\ \E c \in BOOLEAN :
                 req' = [req EXCEPT
                   ![p].tx.order = { [id |-> nextOrder,
                                      checkoutId |-> req[p].sess.id,
                                      userId |-> req[p].sess.userId] },
                   ![p].client = c,
                   ![p].idx = 1,
                   ![p].pc = "item_read"]
            /\ nextOrder' = nextOrder + 1
            /\ UNCHANGED << store, failedIds >>
  /\ UNCHANGED << events, remote, nextListing, deliveries, mirror0, sync, refresh, nextRecord, cartOps, reply, cartCalls >>

\* 2. per line item: dbRecordId, tx.record.findUnique and the three checks.
ReadItem(p) ==
  /\ req[p].pc = "item_read"
  /\ IF ItemValid(p)
       THEN /\ req' = [req EXCEPT ![p].rec = VisibleRecord(p, Item(p).rid),
                                  ![p].pc = "item_write"]
            /\ UNCHANGED << store, failedIds >>
       ELSE Fail(p, "line item rejected")
  /\ UNCHANGED << events, remote, nextListing, nextOrder, deliveries, mirror0, sync, refresh, nextRecord, cartOps, reply, cartCalls >>

\* The columns tx.record.update writes for the line item.
SoldColumns(p) ==
  [quantity |-> req[p].rec.quantity - Item(p).qty,
   status |-> NewStatus(req[p].rec.quantity - Item(p).qty),
   listing |-> VisibleRecord(p, Item(p).rid).listing]

\* The OrderItem snapshot of the line item.
Snapshot(p) ==
  [orderId |-> (CHOOSE o \in req[p].tx.order : TRUE).id,
   line |-> req[p].idx, recordId |-> Item(p).rid,
   price |-> Cents(req[p].rec.price), quantity |-> Item(p).qty]

\* tx.orderItem.create and tx.record.update({quantity, status}); the
\* update waits for the row lock and fails if the row is gone.
WriteItem(p) ==
  /\ req[p].pc = "item_write"
  /\ ~RowLocked(p, Item(p).rid)
  /\ IF Item(p).rid \notin DOMAIN records
       THEN Fail(p, "record gone")
       ELSE /\ req' = [req EXCEPT ![p] =
                 LET w == [@ EXCEPT !.tx.items = @ \cup {Snapshot(p)},
                                    !.tx.recs = (Item(p).rid :> SoldColumns(p)) @@ @]
                 IN  IF w.client /\ w.rec.listing # Null
                       THEN [w EXCEPT !.pc = "rem_delete"]
                       ELSE NextItem(w)]
            /\ UNCHANGED << store, failedIds >>
  /\ UNCHANGED << events, remote, nextListing, nextOrder, deliveries, mirror0, sync, refresh, nextRecord, cartOps, reply, cartCalls >>

\* ------------------------------------------------------------- Discogs
Call(op, line, l, res) == [op |-> op, line |-> line, listing |-> l, res |-> res]

\* What DELETE /marketplace/listings/{id} can answer: a live listing is
\* removed ("ok") or the request fails and it stays ("neterr"); a listing
\* that is not live is a 404 ("gone").
DeleteOutcomes(l) == IF l \in DOMAIN remote THEN {"ok", "neterr"} ELSE {"gone"}

\* What POST /marketplace/listings can answer: a listing is created and its
\* id returned ("ok"), created but no listing_id in the response ("noid"),
\* or the request fails ("throw").
CreateOutcomes == IF nextListing <= MaxListingId THEN {"ok", "noid", "throw"} ELSE {"throw"}

RemainingQty(r) == r.rec.quantity - r.sess.items[r.idx].qty

\* Mutant: the relist follows only a delete that succeeded.
AfterDelete_StopsOnFailure(r) ==
  IF RemainingQty(r) > 0 /\ r.calls[Len(r.calls)].res = "ok"
    THEN [r EXCEPT !.pc = "rem_create"]
    ELSE NextItem(r)

\* After the delete of the old listing, whatever it answered: with stock
\* left the relist follows (a failed delete is caught and logged); with no
\* stock left a failed delete reaches the catch around the whole Discogs
\* block, which logs it, and the loop goes on.
AfterDelete(r) ==
  IF RemainingQty(r) > 0 THEN [r EXCEPT !.pc = "rem_create"] ELSE NextItem(r)

\* discogsClient.delete of the old listing.
RemoteDelete(p) ==
  /\ req[p].pc = "rem_delete"
  /\ \E res \in DeleteOutcomes(req[p].rec.listing) :
       /\ remote' = IF res = "ok"
                      THEN [l \in DOMAIN remote \ {req[p].rec.listing} |-> remote[l]]
                      ELSE remote
       /\ req' = [req EXCEPT ![p] =
                    AfterDelete([@ EXCEPT !.calls =
                                   Append(@, Call("delete", req[p].idx, req[p].rec.listing, res))])]
  /\ UNCHANGED << events, store, nextListing, nextOrder, deliveries, failedIds, mirror0, sync, refresh, nextRecord, cartOps, reply, cartCalls >>

\* After the relist threw: `throw addError` sits inside the try block whose
\* catch (discogsError) only logs, so the loop goes on with the next line item.
AfterRelistError(r) == NextItem(r)

\* After the relist succeeded: tx.record.update({discogsListingId: newListingId}).
AfterRelist(r, newListingId) ==
  NextItem([r EXCEPT !.tx.recs[r.sess.items[r.idx].rid].listing = newListingId])

\* discogsClient.post of the replacement listing.
RemoteCreate(p) ==
  /\ req[p].pc = "rem_create"
  /\ \E res \in CreateOutcomes :
       /\ IF res = "throw"
            THEN UNCHANGED << remote, nextListing >>
            ELSE /\ remote' = (nextListing :> [release |-> req[p].rec.release,
                                               price |-> req[p].rec.price]) @@ remote
                 /\ nextListing' = nextListing + 1
       /\ req' = [req EXCEPT ![p] =
            LET r == [@ EXCEPT !.calls = Append(@,
                        Call("create", req[p].idx, IF res = "throw" THEN Null ELSE nextListing, res))]
            IN  IF res = "ok" THEN AfterRelist(r, nextListing) ELSE AfterRelistError(r)]
  /\ UNCHANGED << events, store, nextOrder, deliveries, failedIds, mirror0, sync, refresh, nextRecord, cartOps, reply, cartCalls >>

\* Mutant: deleteMany without the cartId filter.
ClearCart_EveryCart(p) ==
  /\ req[p].pc = "clear_cart"
  /\ req' = [req EXCEPT ![p].tx.cartDel = cartItems, ![p].pc = "commit"]
  /\ UNCHANGED << events, store, remote, nextListing, nextOrder, deliveries, failedIds, mirror0, sync, refresh, nextRecord, cartOps, reply, cartCalls >>

\* 4. tx.cart.findUnique and tx.cartItem.deleteMany for the buyer.
ClearCart(p) ==
  /\ req[p].pc = "clear_cart"
  /\ req' = [req EXCEPT
       ![p].tx.cartDel = IF req[p].sess.userId \in carts
                           THEN {ci \in cartItems : ci.user = req[p].sess.userId}
                           ELSE {},
       ![p].pc = "commit"]
  /\ UNCHANGED << events, store, remote, nextListing, nextOrder, deliveries, failedIds, mirror0, sync, refresh, nextRecord, cartOps, reply, cartCalls >>

\* The callback returned: the transaction commits.
Commit(p) ==
  /\ req[p].pc = "commit"
  /\ orders' = orders \cup req[p].tx.order
  /\ orderItems' = orderItems \cup req[p].tx.items
  /\ records' = ApplyRecs(req[p].tx.recs)
  /\ cartItems' = cartItems \ req[p].tx.cartDel
  /\ carts' = carts
  /\ req' = [req EXCEPT ![p].tx = EmptyTx, ![p].pc = "post"]
  /\ UNCHANGED << events, remote, nextListing, nextOrder, deliveries, failedIds, mirror0, sync, refresh, nextRecord, cartOps, reply, cartCalls >>

\* The relation fields of model Order.
OrderRelations == {"user", "items"}

\* prisma.order.findUnique({ include: { orderItems: true } }) is a valid
\* query: it is not, Order has no relation orderItems, and the call throws.
OrderFetched == "orderItems" \in OrderRelations

\* Mutant: an error after the commit is rethrown to handleStripeWebhook.
AfterPostTx_Rethrow(r, sent) ==
  IF sent THEN Finished([r EXCEPT !.mailed = TRUE], "settled", 200, "completed")
          ELSE Finished(r, "failed", 500, "email failed")

\* What followed the commit is over: an error of the fetch or of the mail
\* was caught and logged, the handler returns.
AfterPostTx(r, sent) ==
  Finished([r EXCEPT !.mailed = sent], "settled", 200, "completed")

\* After the commit: the order is read back and sendOrderConfirmationEmail
\* is called with it; the handler returns and handleStripeWebhook answers 200.
PostCommit(p) ==
  /\ req[p].pc = "post"
  /\ \E sent \in (IF OrderFetched THEN BOOLEAN ELSE {FALSE}) :
       req' = [req EXCEPT ![p] = AfterPostTx(@, sent)]
  /\ UNCHANGED << events, store, remote, nextListing, nextOrder, deliveries, failedIds, mirror0, sync, refresh, nextRecord, cartOps, reply, cartCalls >>

\* The interactive transaction exceeds its timeout (20 s, the Discogs calls
\* run inside it) or loses its connection: the pending statement throws.
TxTimeout(p) ==
  /\ InTx(p)
  /\ Fail(p, "transaction timeout")
  /\ UNCHANGED << events, remote, nextListing, nextOrder, deliveries, mirror0, sync, refresh, nextRecord, cartOps, reply, cartCalls >>

\* ---------------------------------------------------------------- Spec
\* One step of the webhook request p.
Settlement(p) ==
  \/ \E s \in Sessions : Receive(p, s)
  \/ IdempotencyCheck(p)
  \/ ListLineItems(p)
  \/ CreateOrder(p)
  \/ ReadItem(p)
  \/ WriteItem(p)
  \/ RemoteDelete(p)
  \/ RemoteCreate(p)
  \/ ClearCart(p)
  \/ Commit(p)
  \/ PostCommit(p)
  \/ TxTimeout(p)

\* Concurrent webhook requests against an initial mirror.
Next == \E p \in Procs : Settlement(p)

Spec == Init /\ [][Next]_vars

\* One webhook request at a time: Stripe delivers an event again after the
\* answer to the previous delivery.
NextSeq == Settlement(1)

SpecSeq == Init /\ [][NextSeq]_vars

\* --------------------------------------------------- syncDiscogsInventory
settle == << events, orders, orderItems, remote, nextListing, nextOrder,
             deliveries, req, failedIds, mirror0 >>

Least(S) == CHOOSE x \in S : \A y \in S : x <= y

\* A row an open settlement transaction wrote (or references from an
\* uncommitted OrderItem) is locked until that transaction ends.
LockedRows == UNION {DOMAIN req[p].tx.recs : p \in Procs}

\* orderItem.findMany({ where: { recordId }, take: 1 }) finds a row.
Referenced(rid) == \E i \in orderItems : i.recordId = rid

\* The run returned: its locals are gone.
SyncEnded(run, result) == [SyncIdle EXCEPT !.result = result, !.runs = run.runs]

\* The position of listing l in the seller's inventory as Discogs sorts it.
Rank(inv, l) == Cardinality({x \in DOMAIN inv : x <= l})

\* response.listings of page k.
PageOf(inv, k) ==
  {l \in DOMAIN inv : (k - 1) * PerPage < Rank(inv, l) /\ Rank(inv, l) <= k * PerPage}

\* response.pagination.pages.
PagesOf(inv) == (Cardinality(DOMAIN inv) + PerPage - 1) \div PerPage

\* What getInventory may do for one page.
PageOutcomes == {"listings", "malformed", "throws"}

\* One turn of the fetch loop, the first one starts the run: the page is
\* pushed onto allListings and the loop goes on while currentPage <=
\* totalPages; a response without listings ends the loop with what was
\* gathered; an error thrown ends the run with success: false.
FetchPage(self, after) ==
  /\ \/ self.pc = "idle" /\ self.runs < MaxSyncs
     \/ self.pc = "fetch"
  /\ LET run == IF self.pc = "idle"
                  THEN [SyncIdle EXCEPT !.pc = "fetch", !.page = 1, !.pages = 1,
                                        !.runs = self.runs + 1]
                  ELSE self
         page == PageOf(remote, run.page)
         total == IF run.page = 1 THEN PagesOf(remote) ELSE run.pages
     IN  \E outcome \in PageOutcomes :
           after = CASE outcome = "throws" -> SyncEnded(run, Failure("fetch loop"))
                     [] outcome = "malformed" -> [run EXCEPT !.pc = "read"]
                     [] OTHER ->
                          [run EXCEPT
                             !.feed = [l \in DOMAIN run.feed \cup page |->
                                         IF l \in page THEN remote[l] ELSE run.feed[l]],
                             !.fetched = @ + Cardinality(page),
                             !.pages = total,
                             !.page = @ + 1,
                             !.pc = IF run.page + 1 <= total THEN "fetch" ELSE "read"]
  /\ UNCHANGED << settle, store, nextRecord, cartOps, reply, cartCalls >>

\* 1. prisma.record.findMany({ where: { status: 'FOR_SALE' } }), outside
\* any transaction.
ReadExisting(self, after) ==
  /\ self.pc = "read"
  /\ after = [self EXCEPT
       !.pc = "diff",
       !.existing = [r \in {x \in DOMAIN records : records[x].status = "FOR_SALE"}
                       |-> records[r]]]
  /\ UNCHANGED << settle, store, nextRecord, cartOps, reply, cartCalls >>

\* existingRecordMap: the listing ids of the records read.
ExistingListings(ex) == {ex[r].listing : r \in DOMAIN ex} \ {Null}

\* The record read that holds listing l.
HolderOf(ex, l) == CHOOSE r \in DOMAIN ex : ex[r].listing = l

\* 2. currentDataMap: the listings fetched that have a release with an id
\* and a price; the others are counted in erroredMappingCount.
CurrentData(feed) ==
  [l \in {x \in DOMAIN feed : feed[x].release # Null /\ feed[x].price # Null} |-> feed[l]]

\* The orders in which getInventory may return the listings of one artist
\* (sort: 'artist'): by listing id, upwards or downwards.
FeedOrders == {"asc", "desc"}

\* currentDataMap as it is iterated: every entry with its position, which
\* is its position in allListings.
Positioned(cur, order) ==
  [l \in DOMAIN cur |->
     [release |-> cur[l].release, price |-> cur[l].price,
      pos |-> IF order = "asc" THEN l ELSE 0 - l]]

\* Array.from(currentDataMap.values()).find(...): the first of the
\* candidates in the order of the map.
FirstOf(feed, cand) == CHOOSE l \in cand : \A x \in cand : feed[l].pos <= feed[x].pos

\* Records read whose listing is not in the feed, and records read without
\* listing whose release is not in the feed.
Stale(ex, feed) ==
  {r \in DOMAIN ex :
     IF ex[r].listing # Null
       THEN ex[r].listing \notin DOMAIN feed
       ELSE \A l \in DOMAIN feed : feed[l].release # ex[r].release}

RECURSIVE Adopt(_, _, _, _)
\* The loop over recordsWithoutListingId: each takes the first listing of
\* its release left in currentDataMap that no record read holds; that
\* listing is removed from currentDataMap.
Adopt(ex, feed, todo, cur) ==
  IF todo = {} THEN [upd |-> {}, cur |-> cur]
  ELSE LET r == Least(todo)
           cand == {l \in cur : /\ feed[l].release = ex[r].release
                                /\ l \notin ExistingListings(ex)}
       IN  IF cand = {} THEN Adopt(ex, feed, todo \ {r}, cur)
           ELSE LET l == FirstOf(feed, cand)
                    rest == Adopt(ex, feed, todo \ {r}, cur \ {l})
                IN  [upd |-> rest.upd \cup
                               {[by |-> "id", key |-> r, listing |-> l,
                                 release |-> ex[r].release,
                                 price |-> feed[l].price]},
                     cur |-> rest.cur]

\* needsUpdate: a compared field of the listing differs from the row read.
NeedsUpdate(row, listing) == row.price # listing.price

\* The guard of a stale record: it goes into idsToDelete when no OrderItem
\* names it.
Deletable(r) == ~Referenced(r)

\* Mutant: an adopted listing stays in currentDataMap.
Deltas_KeepsAdopted(ex, feed) ==
  LET orphans == {r \in DOMAIN ex : ex[r].listing = Null} \ Stale(ex, feed)
      adopted == Adopt(ex, feed, orphans, DOMAIN feed)
  IN  [del |-> {r \in Stale(ex, feed) : Deletable(r)},
       create |-> DOMAIN feed \ ExistingListings(ex),
       upd |-> adopted.upd \cup
               {[by |-> "listing", key |-> l, listing |-> l,
                 release |-> feed[l].release, price |-> feed[l].price] :
                  l \in {x \in adopted.cur \cap ExistingListings(ex) :
                           NeedsUpdate(ex[HolderOf(ex, x)], feed[x])}}]

\* 3. the delete, update and create sets of the run, from the records read
\* and currentDataMap.
Deltas(ex, feed) ==
  LET orphans == {r \in DOMAIN ex : ex[r].listing = Null} \ Stale(ex, feed)
      adopted == Adopt(ex, feed, orphans, DOMAIN feed)
  IN  [del |-> {r \in Stale(ex, feed) : Deletable(r)},
       create |-> adopted.cur \ ExistingListings(ex),
       upd |-> adopted.upd \cup
               {[by |-> "listing", key |-> l, listing |-> l,
                 release |-> feed[l].release, price |-> feed[l].price] :
                  l \in {x \in adopted.cur \cap ExistingListings(ex) :
                           NeedsUpdate(ex[HolderOf(ex, x)], feed[x])}}]

\* Mutant: the run reports the size of recordsToCreate as created.
Success_Planned(run, created, updated, deleted) ==
  [success |-> TRUE, created |-> Cardinality(run.create), updated |-> updated,
   deleted |-> deleted,
   mappingErrors |-> run.fetched - Cardinality(DOMAIN CurrentData(run.feed)),
   totalForSale |-> run.fetched,
   totalRecordsProcessed |-> Cardinality(DOMAIN run.existing)]

\* The object a run that got to its end returns.
Success(run, created, updated, deleted) ==
  [success |-> TRUE, created |-> created, updated |-> updated, deleted |-> deleted,
   mappingErrors |-> run.fetched - Cardinality(DOMAIN CurrentData(run.feed)),
   totalForSale |-> run.fetched,
   totalRecordsProcessed |-> Cardinality(DOMAIN run.existing)]

\* 2.-3. map the listings and compute the sets; with nothing to do the run
\* ends without a transaction.
Diff(self, after) ==
  /\ self.pc = "diff"
  /\ \E order \in FeedOrders :
     LET d == Deltas(self.existing, Positioned(CurrentData(self.feed), order))
     IN  after = IF d.del = {} /\ d.create = {} /\ d.upd = {}
                   THEN SyncEnded(self, Success(self, 0, 0, 0))
                   ELSE [self EXCEPT !.pc = "apply", !.del = d.del,
                                     !.create = d.create, !.upd = d.upd]
  /\ UNCHANGED << settle, store, nextRecord, cartOps, reply, cartCalls >>

\* A row created by createMany: quantity and status are the column defaults.
NewRecord(l, listing) ==
  [quantity |-> 1, status |-> "FOR_SALE", listing |-> l,
   release |-> listing.release, price |-> listing.price]

\* Mutant: neither discogsListingId nor discogsReleaseId is unique.
Duplicate_Never(recs, l, release) == FALSE

\* A row with listing id l and this release id breaks a unique index of
\* the table: both columns are @unique.
Duplicate(recs, l, release) ==
  \E r \in DOMAIN recs : recs[r].listing = l \/ recs[r].release = release

RECURSIVE CreateMany(_, _, _, _)
\* tx.record.createMany({ skipDuplicates: true }): a listing whose listing
\* id or release id is already in the table is skipped.
CreateMany(recs, feed, todo, id) ==
  IF todo = {} THEN [recs |-> recs, id |-> id]
  ELSE LET l == Least(todo)
           dup == Duplicate(recs, l, feed[l].release)
       IN  IF dup THEN CreateMany(recs, feed, todo \ {l}, id)
           ELSE CreateMany((id :> NewRecord(l, feed[l])) @@ recs, feed, todo \ {l}, id + 1)

\* The order of recordsToUpdate: the adoptions first.
Before(u, v) ==
  \/ u.by = "id" /\ v.by = "listing"
  \/ u.by = v.by /\ u.key <= v.key

\* The rows `where` of one update selects.
Target(recs, u) ==
  {r \in DOMAIN recs : IF u.by = "id" THEN r = u.key ELSE recs[r].listing = u.key}

\* Mutant: an update by listing id writes the column default of quantity
\* with the other mapped fields.
Updated_WritesQuantity(row, u) ==
  IF u.by = "listing"
    THEN [row EXCEPT !.release = u.release, !.price = u.price, !.status = "FOR_SALE",
                     !.quantity = 1]
    ELSE [row EXCEPT !.listing = u.listing, !.price = u.price]

\* The row r after update u: an update by listing id writes the mapped
\* fields, status 'FOR_SALE' among them; an adoption writes the listing id
\* and the listing's fields; neither writes quantity.
Updated(row, u) ==
  IF u.by = "listing"
    THEN [row EXCEPT !.release = u.release, !.price = u.price, !.status = "FOR_SALE"]
    ELSE [row EXCEPT !.listing = u.listing, !.price = u.price]

\* Another row holds the listing id or the release id row r is to get.
Collides(recs, r, row) ==
  \E o \in DOMAIN recs \ {r} :
    \/ row.listing # Null /\ recs[o].listing = row.listing
    \/ row.release # Null /\ recs[o].release = row.release

RECURSIVE UpdateEach(_, _, _)
\* The loop of tx.record.update: an update that finds no row throws and is
\* logged; an update that breaks a unique index throws in the database,
\* which aborts the transaction there: the updates after it fail too.
UpdateEach(recs, todo, n) ==
  IF todo = {} THEN [recs |-> recs, aborted |-> FALSE, n |-> n]
  ELSE LET u == CHOOSE x \in todo : \A y \in todo : Before(x, y)
           rows == Target(recs, u)
       IN  IF rows = {} THEN UpdateEach(recs, todo \ {u}, n)
           ELSE LET r == CHOOSE x \in rows : TRUE
                    row == Updated(recs[r], u)
                IN  IF Collides(recs, r, row)
                      THEN [recs |-> recs, aborted |-> TRUE, n |-> n]
                      ELSE UpdateEach([recs EXCEPT ![r] = row], todo \ {u}, n + 1)

\* The rows the transaction of this run deletes or updates.
Targets(self) ==
  (self.del \cap DOMAIN records) \cup
  UNION {Target(records, u) : u \in self.upd}

\* Mutant: OrderItem.record cascades, as CartItem.record does.
OnDeleteRecord_Cascade == "Cascade"

\* The referential action of OrderItem.record.
OnDeleteRecord == "Restrict"

\* Mutant: the relation of OrderItem to Record does not restrict deletes.
DeleteRefused_NoRestrict(gone) == FALSE

\* deleteMany is refused: an OrderItem names a record to delete (onDelete:
\* Restrict).
DeleteRefused(gone) == OnDeleteRecord = "Restrict" /\ \E r \in gone : Referenced(r)

\* The OrderItems a delete of the records `gone` leaves: all of them,
\* unless the relation cascades.
ItemsLeft(items, gone) ==
  IF OnDeleteRecord = "Cascade" THEN {i \in items : i.recordId \notin gone}
                                ELSE items

\* 4. the transaction: deleteMany, createMany, the updates, commit. A
\* refused deleteMany throws and the run fails; the CartItems of a deleted
\* record go with it (onDelete: Cascade); a transaction the database
\* aborted commits nothing, and the run returns its counts all the same.
Apply(self, after) ==
  /\ self.pc = "apply"
  /\ Targets(self) \cap LockedRows = {}
  /\ LET gone == self.del \cap DOMAIN records
         kept == [r \in DOMAIN records \ gone |-> records[r]]
         made == CreateMany(kept, CurrentData(self.feed), self.create, nextRecord)
         done == UpdateEach(made.recs, self.upd, 0)
         result == Success(self, made.id - nextRecord, done.n, Cardinality(gone))
     IN  IF DeleteRefused(gone)
           THEN /\ after = SyncEnded(self, Failure("delta processing"))
                /\ UNCHANGED << store, nextRecord >>
           ELSE IF done.aborted
             THEN /\ after = SyncEnded(self, result)
                  /\ UNCHANGED << store, nextRecord >>
             ELSE /\ after = SyncEnded(self, result)
                  /\ records' = done.recs
                  /\ cartItems' = {ci \in cartItems : ci.rid \notin gone}
                  /\ orderItems' = ItemsLeft(orderItems, gone)
                  /\ nextRecord' = made.id
                  /\ UNCHANGED carts
  /\ UNCHANGED << events, orders, remote, nextListing, nextOrder, deliveries, req,
                  failedIds, mirror0, cartOps, reply, cartCalls >>

\* The run the daily job or the start-up check started takes a step.
SyncFetchPage == FetchPage(sync, sync') /\ UNCHANGED refresh
SyncReadExisting == ReadExisting(sync, sync') /\ UNCHANGED refresh
SyncDiff == Diff(sync, sync') /\ UNCHANGED refresh
SyncApply == Apply(sync, sync') /\ UNCHANGED refresh

\* refreshInventory calls syncDiscogsInventory without awaiting it and
\* whatever else is running, and answers 202: that run takes a step.
RefreshInventory ==
  /\ \/ FetchPage(refresh, refresh')
     \/ ReadExisting(refresh, refresh')
     \/ Diff(refresh, refresh')
     \/ Apply(refresh, refresh')
  /\ UNCHANGED sync

\* ------------------------------------------------------------ syncService
\* The older sync service (syncService.ts), run on the same tables: its
\* discogsId is the listing id, its releaseId the release id of a record.

\* fetchAllInventory returned the first k pages: all of them, or those
\* before a response without listings.
FirstPages(inv, k) == [l \in UNION {PageOf(inv, i) : i \in 1..k} |-> inv[l]]

\* mapListingToRecord throws on a listing without release.
MapThrows(feed) == \E l \in DOMAIN feed : feed[l].release = Null

\* fetchAllInventory and the mapping of performInitialSync ("initial") or
\* performDeltaSync ("delta"): an error of a request or of the mapping is
\* thrown to the caller.
LegacyFetch(job) ==
  /\ sync.pc = "idle"
  /\ sync.runs < MaxSyncs
  /\ LET run == [SyncIdle EXCEPT !.runs = sync.runs + 1]
     IN  \/ sync' = SyncEnded(run, Failure("fetch inventory"))
         \/ \E k \in 0..PagesOf(remote) :
              LET feed == FirstPages(remote, k)
              IN  sync' = IF MapThrows(feed)
                            THEN SyncEnded(run, Failure("mapping"))
                            ELSE [run EXCEPT !.pc = job, !.feed = feed,
                                             !.fetched = Cardinality(DOMAIN feed)]
  /\ UNCHANGED << settle, store, refresh, nextRecord, cartOps, reply, cartCalls >>

\* deleteMany({}) is refused when an OrderItem names any record.
FullDeleteRefused == DeleteRefused(DOMAIN records)

\* The transaction of performInitialSync: deleteMany({}), then createMany
\* of the mapped listings; an error rolls it back and is thrown.
InitialSyncApply ==
  /\ sync.pc = "initial"
  /\ LockedRows = {}
  /\ LET made == CreateMany(NoCols, sync.feed, DOMAIN sync.feed, nextRecord)
     IN  IF FullDeleteRefused
           THEN /\ sync' = SyncEnded(sync, Failure("initial sync"))
                /\ UNCHANGED << store, nextRecord >>
           ELSE /\ sync' = SyncEnded(sync, [success |-> TRUE, count |-> made.id - nextRecord])
                /\ records' = made.recs
                /\ cartItems' = {}
                /\ orderItems' = ItemsLeft(orderItems, DOMAIN records)
                /\ nextRecord' = made.id
                /\ UNCHANGED carts
  /\ UNCHANGED << events, orders, remote, nextListing, nextOrder, deliveries, req,
                  failedIds, mirror0, refresh, cartOps, reply, cartCalls >>

\* idsToDelete of performDeltaSync: the listing ids of the records read
\* that are not in the feed.
LegacyIdsToDelete(ex, feed) == ExistingListings(ex) \ DOMAIN feed

\* The sets of performDeltaSync; an update is due when the price or the
\* status differs from the listing's.
LegacyDeltas(ex, feed) ==
  [del |-> LegacyIdsToDelete(ex, feed),
   create |-> DOMAIN feed \ ExistingListings(ex),
   upd |-> {[by |-> "listing", key |-> l, listing |-> l,
             release |-> ex[HolderOf(ex, l)].release, price |-> feed[l].price] :
              l \in {x \in DOMAIN feed \cap ExistingListings(ex) :
                       \/ NeedsUpdate(ex[HolderOf(ex, x)], feed[x])
                       \/ ex[HolderOf(ex, x)].status # "FOR_SALE"}}]

\* prisma.record.findMany() and the sets of performDeltaSync.
DeltaSyncDiff ==
  /\ sync.pc = "delta"
  /\ LET d == LegacyDeltas(records, sync.feed)
     IN  sync' = [sync EXCEPT !.pc = "delta_apply", !.existing = records,
                              !.del = d.del, !.create = d.create, !.upd = d.upd]
  /\ UNCHANGED << settle, store, refresh, nextRecord, cartOps, reply, cartCalls >>

\* The records deleteMany({ where: { discogsId: { in: ids } } }) selects.
HoldersOf(ids) == {r \in DOMAIN records : records[r].listing \in ids}

\* The transaction of performDeltaSync: deleteMany by listing id,
\* createMany, the updates; an error of deleteMany rolls it back and is
\* thrown.
DeltaSyncApply ==
  /\ sync.pc = "delta_apply"
  /\ LET gone == HoldersOf(sync.del)
         kept == [r \in DOMAIN records \ gone |-> records[r]]
         made == CreateMany(kept, sync.feed, sync.create, nextRecord)
         done == UpdateEach(made.recs, sync.upd, 0)
         result == [success |-> TRUE, created |-> made.id - nextRecord,
                    updated |-> done.n, deleted |-> Cardinality(gone)]
     IN  /\ (gone \cup UNION {Target(records, u) : u \in sync.upd}) \cap LockedRows = {}
         /\ IF DeleteRefused(gone)
              THEN /\ sync' = SyncEnded(sync, Failure("delta sync"))
                   /\ UNCHANGED << store, nextRecord >>
              ELSE IF done.aborted
                THEN /\ sync' = SyncEnded(sync, result)
                     /\ UNCHANGED << store, nextRecord >>
                ELSE /\ sync' = SyncEnded(sync, result)
                     /\ records' = done.recs
                     /\ cartItems' = {ci \in cartItems : ci.rid \notin gone}
                     /\ orderItems' = ItemsLeft(orderItems, gone)
                     /\ nextRecord' = made.id
                     /\ UNCHANGED carts
  /\ UNCHANGED << events, orders, remote, nextListing, nextOrder, deliveries, req,
                  failedIds, mirror0, refresh, cartOps, reply, cartCalls >>

\* ---------------------------------------------------------- cartService
\* The cart item of user u for record rid, if any (@@unique([cartId, recordId])).
ItemsOf(u, rid) == {ci \in cartItems : ci.user = u /\ ci.rid = rid}

\* Its quantity, 0 without item.
InCart(u, rid) ==
  IF ItemsOf(u, rid) = {} THEN 0 ELSE (CHOOSE ci \in ItemsOf(u, rid) : TRUE).qty

\* The cart items with the item of u for rid set to quantity q.
Upsert(items, u, rid, q) ==
  {ci \in items : ~(ci.user = u /\ ci.rid = rid)} \cup
  {[user |-> u, rid |-> rid, qty |-> q]}

\* A CartItem row an open settlement transaction deleted is locked.
LockedItems == UNION {req[p].tx.cartDel : p \in Procs}

\* The record exists and is FOR_SALE (Record has no userId column: the
\* check of the owner never fires).
Sellable(rid) == rid \in DOMAIN records /\ records[rid].status = "FOR_SALE"

\* No error was thrown.
NoError == "none"

\* Mutant: the stock is compared with the quantity to add alone.
AddItemToCartError_NoSum(u, rid, qty) ==
  IF qty <= 0 THEN "Quantity must be a positive number."
  ELSE IF rid \notin DOMAIN records THEN "Record not found."
  ELSE IF records[rid].status # "FOR_SALE" THEN "Record is not available for sale."
  ELSE IF records[rid].quantity < qty
    THEN "Insufficient quantity available"
  ELSE NoError

\* What addItemToCart throws: it wants a positive quantity, a record that
\* is FOR_SALE and enough stock for the item's quantity plus this one.
AddItemToCartError(u, rid, qty) ==
  IF qty <= 0 THEN "Quantity must be a positive number."
  ELSE IF rid \notin DOMAIN records THEN "Record not found."
  ELSE IF records[rid].status # "FOR_SALE" THEN "Record is not available for sale."
  ELSE IF records[rid].quantity < InCart(u, rid) + qty
    THEN "Insufficient quantity available"
  ELSE NoError

\* The status addItemController sends for an error of the service, by the
\* words of its message.
StatusOf(error) ==
  CASE error = NoError -> 200
    [] error = "Quantity must be a positive number." -> 400
    [] error \in {"Record not found.", "Record is not available for sale.",
                  "Insufficient quantity available"} -> 400
    [] OTHER -> 500

\* addItemToCart(userId, recordId, quantity): getCart creates the cart row,
\* then the transaction checks the record and upserts the item.
AddItemToCart(u, rid, qty) ==
  LET error == AddItemToCartError(u, rid, qty)
  IN  /\ ItemsOf(u, rid) \cap LockedItems = {}
      /\ cartOps' = cartOps + 1
      /\ carts' = IF qty <= 0 THEN carts ELSE carts \cup {u}
      /\ cartItems' = IF error = NoError
                        THEN Upsert(cartItems, u, rid, InCart(u, rid) + qty)
                        ELSE cartItems
      /\ UNCHANGED << settle, records, orders, orderItems, sync, refresh, nextRecord >>

\* Mutant: the owner of the cart item is not looked at.
UpdateCartItemQuantityError_NoOwner(u, owner, rid, qty) ==
  IF qty <= 0 THEN "Quantity must be a positive number."
  ELSE IF ItemsOf(owner, rid) = {} THEN "Cart item not found."
  ELSE IF rid \notin DOMAIN records
    THEN "Associated record for this cart item no longer exists."
  ELSE IF records[rid].status # "FOR_SALE" /\ records[rid].quantity < qty
    THEN "is no longer available in the requested quantity."
  ELSE IF records[rid].quantity < qty THEN "Insufficient quantity available"
  ELSE NoError

\* What updateCartItemQuantity throws for the cart item of `owner` for rid:
\* the quantity is positive, the item exists, its cart is the caller's, and
\* the record has that much stock, whatever its status.
UpdateCartItemQuantityError(u, owner, rid, qty) ==
  IF qty <= 0 THEN "Quantity must be a positive number."
  ELSE IF ItemsOf(owner, rid) = {} THEN "Cart item not found."
  ELSE IF owner # u THEN "Permission denied to update this cart item."
  ELSE IF rid \notin DOMAIN records
    THEN "Associated record for this cart item no longer exists."
  ELSE IF records[rid].status # "FOR_SALE" /\ records[rid].quantity < qty
    THEN "is no longer available in the requested quantity."
  ELSE IF records[rid].quantity < qty THEN "Insufficient quantity available"
  ELSE NoError

\* The status updateItemController and removeItemController send.
ItemStatusOf(error) ==
  CASE error = NoError -> 200
    [] error = "Quantity must be a positive number." -> 400
    [] error \in {"Cart item not found.",
                  "Permission denied to update this cart item.",
                  "Permission denied to remove this cart item.",
                  "Associated record for this cart item no longer exists.",
                  "Insufficient quantity available"} -> 404
    [] OTHER -> 500

\* updateCartItemQuantity(userId, cartItemId, quantity), the cart item being
\* the one of `owner` for rid.
UpdateCartItemQuantity(u, owner, rid, qty) ==
  LET error == UpdateCartItemQuantityError(u, owner, rid, qty)
  IN  /\ ItemsOf(owner, rid) \cap LockedItems = {}
      /\ cartOps' = cartOps + 1
      /\ cartItems' = IF error = NoError THEN Upsert(cartItems, owner, rid, qty)
                                         ELSE cartItems
      /\ UNCHANGED << settle, records, orders, orderItems, carts, sync, refresh, nextRecord >>

\* Mutant: a missing cart item is an error.
RemoveItemFromCartError_Strict(u, owner, rid) ==
  IF ItemsOf(owner, rid) = {} THEN "Cart item not found."
  ELSE IF owner # u THEN "Permission denied to remove this cart item."
  ELSE NoError

\* What removeItemFromCart throws: a missing item is not an error, an item
\* of another user's cart is.
RemoveItemFromCartError(u, owner, rid) ==
  IF ItemsOf(owner, rid) = {} THEN NoError
  ELSE IF owner # u THEN "Permission denied to remove this cart item."
  ELSE NoError

\* removeItemFromCart(userId, cartItemId): the item is deleted and getCart
\* returns the cart, creating its row where there is none.
RemoveItemFromCart(u, owner, rid) ==
  LET error == RemoveItemFromCartError(u, owner, rid)
  IN  /\ ItemsOf(owner, rid) \cap LockedItems = {}
      /\ cartOps' = cartOps + 1
      /\ IF error # NoError
           THEN UNCHANGED << carts, cartItems >>
           ELSE /\ cartItems' = cartItems \ ItemsOf(owner, rid)
                /\ carts' = carts \cup {u}
      /\ UNCHANGED << settle, records, orders, orderItems, sync, refresh, nextRecord >>

\* An element of guestCartItems that is null, not an object.
NullItem == [null |-> TRUE]

\* The element has properties to read.
IsObject(g) == "rid" \in DOMAIN g

\* The guest carts a client may send to mergeCart.
GuestCarts ==
  { << [rid |-> 1, qty |-> 2], [rid |-> 2, qty |-> 1] >>,
    << [rid |-> NoRec, qty |-> 1], [rid |-> 2, qty |-> 0], [rid |-> 1, qty |-> 1] >> }

\* quantityToSet: the sum of the item's quantity and the guest's, capped
\* at the stock of the record.
QuantityToSet(have, qty, available) ==
  IF available < have + qty THEN available ELSE have + qty

\* continue: the loop goes on with the next guest item.
Skip(items, guest, i) == i + 1

RECURSIVE Merge(_, _, _, _)
\* The loop of mergeCart from guest item i on: reading the record id of a
\* null element throws; a malformed item, an unknown record or one not
\* FOR_SALE is skipped; nothing is written if the capped quantity is 0.
Merge(items, u, guest, i) ==
  IF i > Len(guest) THEN [items |-> items, error |-> NoError]
  ELSE LET g == guest[i]
           have == IF \E ci \in items : ci.user = u /\ ci.rid = g.rid
                     THEN (CHOOSE ci \in items : ci.user = u /\ ci.rid = g.rid).qty
                     ELSE 0
           quantityToSet == QuantityToSet(have, g.qty, records[g.rid].quantity)
       IN  IF ~IsObject(g)
             THEN [items |-> items, error |-> "TypeError"]
             ELSE IF g.rid = NoRec \/ g.qty <= 0 \/ ~Sellable(g.rid)
               THEN Merge(items, u, guest, Skip(items, guest, i))
               ELSE IF quantityToSet <= 0
                 THEN Merge(items, u, guest, Skip(items, guest, i))
                 ELSE Merge(Upsert(items, u, g.rid, quantityToSet), u, guest, i + 1)

\* The records the objects of a guest cart name.
Named(guest) == {guest[i].rid : i \in {j \in 1..Len(guest) : IsObject(guest[j])}}

\* mergeCart(userId, guestCartItems): getCart creates the cart row, the
\* loop runs in one transaction, and an error thrown in it rolls the
\* transaction back.
MergeCart(u, guest) ==
  LET merged == Merge(cartItems, u, guest, 1)
  IN  /\ \A rid \in Named(guest) : ItemsOf(u, rid) \cap LockedItems = {}
      /\ cartOps' = cartOps + 1
      /\ carts' = carts \cup {u}
      /\ cartItems' = IF merged.error = NoError THEN merged.items ELSE cartItems
      /\ UNCHANGED << settle, records, orders, orderItems, sync, refresh, nextRecord >>

\* One call of the cart service.
CartOperation ==
  /\ cartOps < MaxCartOps
  /\ \/ \E u \in Users, rid \in DOMAIN records \cup {NoRec}, qty \in 0..MaxQty :
          AddItemToCart(u, rid, qty)
     \/ \E u \in Users, owner \in Users, rid \in DOMAIN records, qty \in 0..MaxQty :
          UpdateCartItemQuantity(u, owner, rid, qty)
     \/ \E u \in Users, owner \in Users, rid \in DOMAIN records :
          RemoveItemFromCart(u, owner, rid)
     \/ \E u \in Users, guest \in GuestCarts : MergeCart(u, guest)
  /\ UNCHANGED << reply, cartCalls >>

\* ------------------------------------------------------------- SpecAll
\* The seller's inventory with listing 1 at price p and listing x.
Feed(p, x) == [l \in {1, x} |-> [release |-> l, price |-> IF l = 1 THEN p ELSE l]]

\* What the seller's Discogs inventory may hold when the mirror holds the
\* records of listings 1 and 2: the same listings, or listing 1 repriced,
\* listing 2 withdrawn and a new listing 3 put up.
Feeds == { Feed(1, 2), Feed(3, 3) }

\* The sessions completed in one behaviour of SpecAll.
ScenariosAll == { {"c1", "c7"}, {"c5"} }

\* A mirror as an earlier run of syncDiscogsInventory created it: every
\* record with quantity 1, FOR_SALE, and the listing id it was created from.
InitAll ==
  /\ InitRequests
  /\ events \in ScenariosAll
  /\ records = [l \in {1, 2} |-> NewRecord(l, [release |-> l, price |-> l])]
  /\ remote \in Feeds
  /\ orders = {}
  /\ orderItems = {}
  /\ carts = Users
  /\ cartItems = InitialCartItems
  /\ nextListing = 4
  /\ mirror0 = records

\* One step of the webhook request p on a mirror whose records all have
\* quantity 1: a sold record has no stock left, the relist is never reached
\* (NoRelistAll).
SettlementSoldOut(p) ==
  \/ \E s \in Sessions : Receive(p, s)
  \/ IdempotencyCheck(p)
  \/ ListLineItems(p)
  \/ CreateOrder(p)
  \/ ReadItem(p)
  \/ WriteItem(p)
  \/ RemoteDelete(p)
  \/ ClearCart(p)
  \/ Commit(p)
  \/ PostCommit(p)
  \/ TxTimeout(p)

\* Reconcile runs, cart operations and settlements, interleaved.
NextAll ==
  \/ \E p \in Procs : SettlementSoldOut(p)
  \/ SyncFetchPage
  \/ SyncReadExisting
  \/ SyncDiff
  \/ SyncApply
  \/ CartOperation

SpecAll == InitAll /\ [][NextAll]_vars

\* No request of SpecAll reaches the relist.
NoRelistAll == \A p \in Procs : req[p].pc # "rem_create"

\* ------------------------------------------------------------ SpecSync
\* The order of an earlier checkout c0 and its item on record rid.
History(rid) ==
  [orders |-> {[id |-> 0, checkoutId |-> "c0", userId |-> "u2"]},
   items |-> {[orderId |-> 0, line |-> 1, recordId |-> rid, price |-> Cents(rid),
               quantity |-> 1]}]

NoHistory == [orders |-> {}, items |-> {}]

\* Record 2 of a mirror: listed for sale, for sale without listing id (not
\* from Discogs), or sold out by the earlier checkout.
Record2(kind) ==
  CASE kind = "listed" -> [quantity |-> 1, status |-> "FOR_SALE", listing |-> 2,
                           release |-> 2, price |-> 2]
    [] kind = "orphan" -> [quantity |-> 1, status |-> "FOR_SALE", listing |-> Null,
                           release |-> 2, price |-> 2]
    [] kind = "sold"   -> [quantity |-> 0, status |-> "SOLD", listing |-> 2,
                           release |-> 2, price |-> 2]

\* A listing of the seller's inventory.
Listing(release, price) == [release |-> release, price |-> price]

\* What the seller's inventory may hold: the listings of the mirror; listing
\* 1 repriced, 2 withdrawn and a listing of a new release; the same with
\* listing 1 edited to offer release 2; a second copy of release 2; listing
\* 2 replaced by another listing of release 2; a listing that comes without
\* price; nothing.
FeedsSync ==
  { (1 :> Listing(1, 1)) @@ (2 :> Listing(2, 2)),
    (1 :> Listing(1, 3)) @@ (3 :> Listing(3, 3)),
    (1 :> Listing(2, 3)) @@ (3 :> Listing(3, 3)),
    (1 :> Listing(1, 1)) @@ (2 :> Listing(2, 2)) @@ (3 :> Listing(2, 2)),
    (1 :> Listing(1, 1)) @@ (3 :> Listing(2, 2)),
    (1 :> Listing(1, 1)) @@ (3 :> Listing(3, Null)),
    NoCols }

\* The sessions completed in one behaviour of SpecSync.
ScenariosSync == { {"c1"}, {"c2"} }

\* The mirrors and inventories a run may find: record 1 with stock
\* 1..MaxQty, record 2 of any kind, an earlier order on one of them or
\* none (a sold record has one).
InitMirror ==
  /\ InitRequests
  /\ \E q \in 1..MaxQty, kind \in {"listed", "orphan", "sold"}, h \in {0, 1, 2} :
       /\ kind = "sold" => h = 2
       /\ records =
            (1 :> [quantity |-> q, status |-> "FOR_SALE", listing |-> 1,
                   release |-> 1, price |-> 1]) @@
            (2 :> Record2(kind))
       /\ LET past == IF h = 0 THEN NoHistory ELSE History(h)
          IN  orders = past.orders /\ orderItems = past.items
  /\ remote \in FeedsSync
  /\ carts = Users
  /\ cartItems = InitialCartItems
  /\ nextListing = 4
  /\ mirror0 = records

InitSync == InitMirror /\ events \in ScenariosSync

\* One webhook request at a time, and one run at a time of
\* syncDiscogsInventory, performInitialSync or performDeltaSync.
NextSync ==
  \/ Settlement(1)
  \/ SyncFetchPage
  \/ SyncReadExisting
  \/ SyncDiff
  \/ SyncApply
  \/ \E job \in {"initial", "delta"} : LegacyFetch(job)
  \/ InitialSyncApply
  \/ DeltaSyncDiff
  \/ DeltaSyncApply

SpecSync == InitSync /\ [][NextSync]_vars

\* -------------------------------------------------------- SpecReconcile
\* No event is delivered.
InitReconcile == InitMirror /\ events = {}

\* Runs of syncDiscogsInventory and nothing else.
NextReconcile ==
  \/ SyncFetchPage
  \/ SyncReadExisting
  \/ SyncDiff
  \/ SyncApply

SpecReconcile == InitReconcile /\ [][NextReconcile]_vars

\* ---------------------------------------------------------- SpecRefresh
\* The run of the daily job and a run started by POST /api/inventory/refresh,
\* each taking its steps when it comes to them.
NextRefresh ==
  \/ NextReconcile
  \/ RefreshInventory

SpecRefresh == InitReconcile /\ [][NextRefresh]_vars

\* ------------------------------------------------------------ SpecRerun
\* The next run of syncDiscogsInventory, started after the run before it
\* has returned (the daily job a day later, or a refresh requested then).
NextRun ==
  /\ sync.pc = "idle" /\ sync.runs >= 1
  /\ RefreshInventory

\* Two runs one after the other, and no other writer.
NextRerun ==
  \/ NextReconcile
  \/ NextRun

SpecRerun == InitReconcile /\ [][NextRerun]_vars

\* ------------------------------------------------------------- SpecCart
\* The quantities a client may send.
CartQuantities == (0 - 1)..(MaxQty + 1)

\* The record ids a client may send: none, the two of the mirror and one
\* no record has.
CartRecordIds == {NoRec, 1, 2, 3}

\* The elements of guestCartItems: null, an object without record id, one
\* of an unknown record, and one of each record with each quantity.
GuestItems ==
  {NullItem, [rid |-> NoRec, qty |-> 1], [rid |-> 3, qty |-> 1]} \cup
  {[rid |-> r, qty |-> q] : r \in {1, 2}, q \in 0..MaxQty}

\* guestCartItems: every array of at most MaxGuestItems elements.
GuestCartsAll ==
  UNION {[1..n -> GuestItems] : n \in 0..MaxGuestItems}

\* The mirrors and carts a cart request may find. Record 1 is FOR_SALE
\* with stock 0..MaxQty (0 after a reconcile run wrote FOR_SALE back on a
\* record sold out meanwhile), record 2 is FOR_SALE with stock 1 or SOLD;
\* u1 has no item or one of record 1, put there when the stock was MaxQty,
\* u2 has an item of each record.
InitCart ==
  /\ InitRequests
  /\ events = {}
  /\ \E q \in 0..MaxQty, sold \in BOOLEAN :
       records =
         (1 :> [quantity |-> q, status |-> "FOR_SALE", listing |-> 1,
                release |-> 1, price |-> 1]) @@
         (2 :> [quantity |-> IF sold THEN 0 ELSE 1,
                status |-> IF sold THEN "SOLD" ELSE "FOR_SALE",
                listing |-> 2, release |-> 2, price |-> 2])
  /\ remote = [l \in {1, 2} |-> [release |-> l, price |-> l]]
  /\ orders = {}
  /\ orderItems = {}
  /\ \E have \in 0..MaxQty :
       cartItems = {ci \in InitialCartItems : ci.user = "u2"} \cup
                   {[user |-> "u1", rid |-> 1, qty |-> have] : x \in {y \in {1} : have > 0}}
  /\ carts = {ci.user : ci \in cartItems}
  /\ nextListing = 4
  /\ mirror0 = records

\* addItemController: a request without record id is answered with 400,
\* any other goes to addItemToCart.
AddItemController(u, rid, qty) ==
  IF rid = NoRec
    THEN /\ reply' = [op |-> "addItem", status |-> 400, user |-> u,
                      rid |-> rid, qty |-> qty]
         /\ cartOps' = cartOps + 1
         /\ UNCHANGED << settle, store, sync, refresh, nextRecord >>
    ELSE /\ AddItemToCart(u, rid, qty)
         /\ reply' = [op |-> "addItem",
                      status |-> StatusOf(AddItemToCartError(u, rid, qty)),
                      user |-> u, rid |-> rid, qty |-> qty]

\* updateItemController.
UpdateItemController(u, owner, rid, qty) ==
  /\ UpdateCartItemQuantity(u, owner, rid, qty)
  /\ reply' = [op |-> "updateItem",
               status |-> ItemStatusOf(UpdateCartItemQuantityError(u, owner, rid, qty)),
               user |-> u, owner |-> owner, rid |-> rid, qty |-> qty]

\* removeItemController.
RemoveItemController(u, owner, rid) ==
  /\ RemoveItemFromCart(u, owner, rid)
  /\ reply' = [op |-> "removeItem",
               status |-> ItemStatusOf(RemoveItemFromCartError(u, owner, rid)),
               user |-> u, owner |-> owner, rid |-> rid]

\* mergeCartController: an empty array is answered with the cart getCart
\* returns, an error of mergeCart with status 500.
MergeCartController(u, guest) ==
  /\ MergeCart(u, guest)
  /\ reply' = [op |-> "merge",
               status |-> IF Merge(cartItems, u, guest, 1).error = NoError
                            THEN 200 ELSE 500,
               user |-> u, guest |-> guest]

\* The requests of the cart routes, one after the other.
NextCart ==
  /\ cartOps < MaxCartCalls
  /\ \/ \E u \in Users, rid \in CartRecordIds, qty \in CartQuantities :
          AddItemController(u, rid, qty)
     \/ \E u \in Users, owner \in Users, rid \in CartRecordIds \ {NoRec},
           qty \in CartQuantities :
          UpdateItemController(u, owner, rid, qty)
     \/ \E u \in Users, owner \in Users, rid \in CartRecordIds \ {NoRec} :
          RemoveItemController(u, owner, rid)
     \/ \E u \in Users, guest \in GuestCartsAll : MergeCartController(u, guest)
  /\ UNCHANGED cartCalls

SpecCart == InitCart /\ [][NextCart]_vars

\* --------------------------------------------------------- SpecCartRace
\* The calls of getCart and addItemToCart step by step, one per process:
\* every await is a point where the other call may run. The transaction of
\* addItemToCart is a READ COMMITTED one and takes no row lock before its
\* upsert.

\* getCart, first await: cart.findUnique({ where: { userId } }). A call
\* of addItemToCart throws before it for a quantity that is not positive.
CartFind(p, op, u, rid, qty) ==
  /\ cartCalls[p].pc = "idle"
  /\ cartCalls' = [cartCalls EXCEPT ![p] =
       [op |-> op, user |-> u, rid |-> rid, qty |-> qty,
        pc |-> IF op = "addItem" /\ qty <= 0 THEN "done"
               ELSE IF u \notin carts THEN "create"
               ELSE IF op = "addItem" THEN "check" ELSE "done",
        error |-> IF op = "addItem" /\ qty <= 0
                    THEN "Quantity must be a positive number." ELSE NoError]]
  /\ UNCHANGED << settle, store, sync, refresh, nextRecord, cartOps, reply >>

\* getCart, second await: cart.create({ data: { userId } }). Cart.userId
\* is @unique: the create throws if another call created the cart since.
CartCreate(p) ==
  LET c == cartCalls[p]
  IN  /\ c.pc = "create"
      /\ IF c.user \in carts
           THEN /\ cartCalls' = [cartCalls EXCEPT ![p].pc = "done",
                                   ![p].error = "Unique constraint failed on the fields: (userId)"]
                /\ UNCHANGED carts
           ELSE /\ cartCalls' = [cartCalls EXCEPT ![p].pc =
                                   IF c.op = "addItem" THEN "check" ELSE "done"]
                /\ carts' = carts \cup {c.user}
      /\ UNCHANGED << settle, records, orders, orderItems, cartItems, sync, refresh,
                      nextRecord, cartOps, reply >>

\* addItemToCart, in the transaction: the record and the cart item are read
\* and the stock is compared with the sum.
AddCheck(p) ==
  LET c == cartCalls[p]
      error == AddItemToCartError(c.user, c.rid, c.qty)
  IN  /\ c.pc = "check"
      /\ cartCalls' = [cartCalls EXCEPT ![p].pc = IF error = NoError THEN "upsert" ELSE "done",
                                         ![p].error = error]
      /\ UNCHANGED << settle, store, sync, refresh, nextRecord, cartOps, reply >>

\* addItemToCart, cartItem.upsert: the row of (cart, record) is incremented
\* by quantity as it is now, or created with quantity.
AddUpsert(p) ==
  LET c == cartCalls[p]
  IN  /\ c.pc = "upsert"
      /\ cartItems' = Upsert(cartItems, c.user, c.rid, InCart(c.user, c.rid) + c.qty)
      /\ cartCalls' = [cartCalls EXCEPT ![p].pc = "done"]
      /\ UNCHANGED << settle, records, orders, orderItems, carts, sync, refresh,
                      nextRecord, cartOps, reply >>

\* Two calls, each of getCart or addItemToCart, interleaved at their awaits.
NextCartRace ==
  \/ \E p \in Procs, u \in Users : CartFind(p, "getCart", u, NoRec, 0)
  \/ \E p \in Procs, u \in Users, rid \in {1, 2, 3}, qty \in 0..MaxQty :
       CartFind(p, "addItem", u, rid, qty)
  \/ \E p \in Procs : CartCreate(p)
  \/ \E p \in Procs : AddCheck(p)
  \/ \E p \in Procs : AddUpsert(p)

SpecCartRace == InitCart /\ [][NextCartRace]_vars

\* --------------------------------------------------------- SpecCheckout
\* line_items: one per cart item whose price in cents is positive, with
\* the record id in product_data.metadata.dbRecordId; an item of a record
\* with unit amount <= 0 is left out by continue.
LineItems(u) ==
  {[rid |-> ci.rid, qty |-> ci.qty, unit_amount |-> Cents(records[ci.rid].price)] :
     ci \in {x \in cartItems : x.user = u /\ Cents(records[x.rid].price) > 0}}

\* What createCheckoutSession may throw before it calls Stripe: the cart
\* is empty, or the loop throws at the first item whose record is not
\* FOR_SALE or has less stock than the item (any such item may be the
\* first), or no line item is left.
CheckoutErrors(u) ==
  LET items == {ci \in cartItems : ci.user = u}
      bad == {"is no longer available for sale." :
                ci \in {x \in items : ~Sellable(x.rid)}} \cup
             {"Insufficient stock" :
                ci \in {x \in items : Sellable(x.rid) /\ records[x.rid].quantity < x.qty}}
  IN  IF items = {} THEN {"Cannot create checkout session: Cart is empty."}
      ELSE IF bad # {} THEN bad
      ELSE IF LineItems(u) = {} THEN {"No valid items found in the cart for checkout."}
      ELSE {NoError}

\* The status createCheckoutSessionController sends.
CheckoutStatusOf(error) ==
  CASE error = NoError -> 200
    [] error \in {"Cannot create checkout session: Cart is empty.",
                  "Insufficient stock"} -> 400
    [] OTHER -> 500

\* createCheckoutSessionController and createCheckoutSession(userId):
\* getCart, the validation of the items, then stripe.checkout.sessions
\* .create, which may fail. reply holds the line items of the session
\* created, none when the request is rejected.
CreateCheckoutSession(u) ==
  /\ \E error \in CheckoutErrors(u), created \in BOOLEAN :
       LET e == IF error = NoError /\ ~created
                  THEN "Failed to create Stripe session" ELSE error
       IN  reply' = [op |-> "checkout", status |-> CheckoutStatusOf(e), user |-> u,
                     line_items |-> IF e = NoError THEN LineItems(u) ELSE {}]
  /\ carts' = carts \cup {u}
  /\ UNCHANGED << settle, records, orders, orderItems, cartItems, sync, refresh,
                  nextRecord, cartOps, cartCalls >>

\* The mirrors and carts of InitCart, record 2 with a price or with the
\* price 0 mapListingToRecord gives a listing without price.
InitCheckout ==
  /\ InitRequests
  /\ events = {}
  /\ \E q \in 0..MaxQty, sold \in BOOLEAN, price \in {0, 2} :
       records =
         (1 :> [quantity |-> q, status |-> "FOR_SALE", listing |-> 1,
                release |-> 1, price |-> 1]) @@
         (2 :> [quantity |-> IF sold THEN 0 ELSE 1,
                status |-> IF sold THEN "SOLD" ELSE "FOR_SALE",
                listing |-> 2, release |-> 2, price |-> price])
  /\ remote = [l \in {1, 2} |-> [release |-> l, price |-> l]]
  /\ orders = {}
  /\ orderItems = {}
  /\ \E have \in 0..MaxQty :
       cartItems = {ci \in InitialCartItems : ci.user = "u2"} \cup
                   {[user |-> "u1", rid |-> 1, qty |-> have] : x \in {y \in {1} : have > 0}}
  /\ carts = {ci.user : ci \in cartItems}
  /\ nextListing = 4
  /\ mirror0 = records

\* One request of the cart routes, then requests for a checkout session.
NextCheckout ==
  \/ cartOps < MaxCartOps /\ NextCart
  \/ \E u \in Users : CreateCheckoutSession(u)

SpecCheckout == InitCheckout /\ [][NextCheckout]_vars

\* ------------------------------------------------------------ measures
\* The stock of each record in the initial mirror.
stock0 == [r \in DOMAIN mirror0 |-> mirror0[r].quantity]

RECURSIVE SumQty(_)
\* The total quantity of a set of OrderItems.
SumQty(S) ==
  IF S = {} THEN 0
  ELSE LET i == CHOOSE x \in S : TRUE IN i.quantity + SumQty(S \ {i})

OrdersOf(c) == {o \in orders : o.checkoutId = c}
ItemsOfRecord(rid) == {i \in orderItems : i.recordId = rid}
ItemsOfOrder(oid) == {i \in orderItems : i.orderId = oid}
Ended(p) == req[p].pc \in {"acked", "settled", "failed"}
\* The listings live on Discogs for the release of a record.
LiveListings(rid) == {l \in DOMAIN remote : remote[l].release = records[rid].release}
\* The Discogs calls a request issued for its line item number i.
CallsOfLine(r, i) == {k \in 1..Len(r.calls) : r.calls[k].line = i}

\* ------------------------------------------------------------------ C1
\* C1 (step): a delivery that finds an Order for its checkout id at the
\* idempotency check is answered 200 and changes nothing in the store or on
\* Discogs, and issues no Discogs call.
C1_DuplicateStep ==
  \A p \in Procs :
    (req[p].pc = "idem" /\ OrderExists(req[p].sess.id) /\ req'[p] # req[p]) =>
      /\ req'[p].pc = "acked" /\ req'[p].resp = 200
      /\ req'[p].calls = << >>
      /\ store' = store /\ remote' = remote

\* C1 (state): however often the event of one session is delivered, there is
\* at most one Order for it, with one OrderItem per line item, and every
\* record is decremented by what that one Order bought.
C1_OncePerCheckout ==
  \A c \in CheckoutIds :
    /\ Cardinality(OrdersOf(c)) <= 1
    /\ (events = {c} /\ OrdersOf(c) = {}) =>
         \A r \in DOMAIN records : records[r].quantity = stock0[r]
    /\ (events = {c} /\ OrdersOf(c) # {}) =>
         /\ Cardinality(orderItems) = Len(SessionOf(c).items)
         /\ \A r \in DOMAIN records :
              records[r].quantity = stock0[r] - SumQty(ItemsOfRecord(r))

\* C1: settlement is idempotent per checkout identifier.
C1_Idempotent == [][C1_DuplicateStep]_vars /\ []C1_OncePerCheckout

\* C1 witness: the event of c1 was settled and a second delivery of it was
\* answered 200 as already processed.
C1_Witness ==
  \E p \in Procs :
    /\ req[p].pc = "acked" /\ req[p].log = "already processed"
    /\ req[p].sess.id = "c1"
    /\ Cardinality(OrdersOf("c1")) = 1
    /\ records[1].quantity = stock0[1] - 1

\* ------------------------------------------------------------------ C2
\* What the session of checkout id c buys of record rid.
SessionQty(c, rid) ==
  LET its == SessionOf(c).items
      at == {i \in 1..Len(its) : its[i].rid = rid}
  IN  IF at = {} THEN 0 ELSE its[CHOOSE i \in at : TRUE].qty

\* C2 (first part): of two concurrent settlements of one checkout id at most
\* one commits an Order, and the records are decremented by one of them only.
C2_OneOrderOneDecrement ==
  \A p, q \in Procs :
    (p # q /\ req[q].conc /\ req[p].sess.id = req[q].sess.id) =>
      /\ Cardinality(OrdersOf(req[p].sess.id)) <= 1
      /\ events = {req[p].sess.id} =>
           \A r \in DOMAIN records :
             records[r].quantity >= stock0[r] - SessionQty(req[p].sess.id, r)

\* C2: for two concurrent settlements of the same checkout id (both passed
\* the idempotency check before either committed) at most one Order is
\* committed, the records are decremented by one of the two only, and only
\* one of the two issues Discogs delete/create calls.
C2_ExclusivePerCheckout ==
  /\ C2_OneOrderOneDecrement
  /\ \A p, q \in Procs :
       (p # q /\ req[q].conc /\ req[p].sess.id = req[q].sess.id) =>
         ~(req[p].calls # << >> /\ req[q].calls # << >>)

\* ------------------------------------------------------------------ C3
\* C3: no lost update between settlements: the committed OrderItems of a
\* record never total more than its initial stock, and its quantity is the
\* initial stock minus that total.
C3_NoLostUpdate ==
  \A r \in DOMAIN records :
    /\ SumQty(ItemsOfRecord(r)) <= stock0[r]
    /\ records[r].quantity = stock0[r] - SumQty(ItemsOfRecord(r))

\* ------------------------------------------------------------------ C4
\* The request deleted the old listing of a line item and the create of the
\* replacement then failed.
RelistFailedAfterDelete(r) ==
  \E k \in 2..Len(r.calls) :
    /\ r.calls[k].op = "create" /\ r.calls[k].res \in {"throw", "noid"}
    /\ r.calls[k-1].op = "delete" /\ r.calls[k-1].res = "ok"
    /\ r.calls[k-1].line = r.calls[k].line

\* C4: a settlement whose relist failed after the delete of the old listing
\* succeeded is aborted: it never commits, and it is answered as failed.
C4_RelistEscalation ==
  \A p \in Procs :
    RelistFailedAfterDelete(req[p]) =>
      /\ req[p].pc \notin {"post", "settled"}
      /\ Ended(p) => req[p].resp = 500

\* ------------------------------------------------------------------ C5
\* C5 (step): a transaction that fails leaves every table as it is and is
\* answered 500; the store changes only when a transaction commits.
C5_FailureStep ==
  /\ \A p \in Procs :
       (InTx(p) /\ req'[p].pc = "failed") =>
         (store' = store /\ req'[p].resp = 500)
  /\ store' # store =>
       \E p \in Procs : req[p].pc = "commit" /\ req'[p].pc = "post"

\* C5 (state): after a first delivery that failed, Orders, OrderItems,
\* records and cart items are those of before the event.
C5_FirstFailure ==
  \A p \in Procs :
    (deliveries = 1 /\ req[p].pc = "failed") =>
      /\ orders = {} /\ orderItems = {}
      /\ records = mirror0
      /\ cartItems = InitialCartItems
      /\ req[p].resp = 500

\* C5: a settlement that fails before its transaction commits leaves the
\* local store as it was and is reported as failed.
C5_AllOrNothing == [][C5_FailureStep]_vars /\ []C5_FirstFailure

\* C5 witness: the event of c4 failed on its second line item after the
\* first one was processed (its listing was deleted on Discogs).
C5_Witness ==
  \E p \in Procs :
    /\ req[p].pc = "failed" /\ req[p].sess.id = "c4"
    /\ req[p].log = "line item rejected"
    /\ Len(req[p].calls) = 1
    /\ deliveries = 1
    /\ records = mirror0 /\ orders = {}

\* ------------------------------------------------------------------ C6
\* Every Discogs call of the request was answered, none failed in transit.
CleanCalls(r) ==
  /\ r.calls # << >>
  /\ \A k \in 1..Len(r.calls) : r.calls[k].res \in {"ok", "gone"}

\* The live listings of every record the session bought are at most the one
\* listing stored on the record.
InStep(c) ==
  \A i \in 1..Len(SessionOf(c).items) :
    LET rid == SessionOf(c).items[i].rid
    IN  LiveListings(rid) \subseteq {records[rid].listing}

\* A settlement that commits with no failed delivery before it, and with
\* every Discogs call answered, leaves mirror and Discogs in step (one
\* request at a time).
FirstDeliveryInStep ==
  (/\ req[1].pc = "settled" /\ events = {req[1].sess.id}
   /\ failedIds = {} /\ CleanCalls(req[1]))
    => InStep(req[1].sess.id)

\* C6: a settlement that commits on a later delivery, after a delivery of
\* the same event failed, leaves mirror and Discogs as a first delivery
\* would: no duplicate and no orphaned listing of a purchased record.
C6_SafeRetry ==
  (/\ req[1].pc = "settled" /\ events = {req[1].sess.id}
   /\ failedIds = {req[1].sess.id} /\ CleanCalls(req[1]))
    => InStep(req[1].sess.id)

\* ------------------------------------------------------------------ C7
\* C7 (step): a line item that fails a check ends the request in error, with
\* no Order for its checkout id.
C7_RejectStep ==
  \A p \in Procs :
    (req[p].pc = "item_read" /\ ~ItemValid(p) /\ req'[p] # req[p]) =>
      /\ req'[p].pc = "failed" /\ req'[p].resp = 500
      /\ \A o \in orders' : o.checkoutId # req[p].sess.id

\* C7 (state): every committed Order has, for each line item of its session
\* at whatever position, an OrderItem on exactly the record the line item
\* names, an existing record whose stock covered the quantity.
C7_OrdersAreValid ==
  \A o \in orders :
    LET its == SessionOf(o.checkoutId).items
    IN  \A i \in 1..Len(its) :
          /\ its[i].rid # NoRec
          /\ its[i].rid \in DOMAIN records
          /\ its[i].qty <= stock0[its[i].rid]
          /\ \E oi \in ItemsOfOrder(o.id) :
               oi.line = i /\ oi.recordId = its[i].rid /\ oi.quantity = its[i].qty

\* C7: a line item without record id, with an unknown record, a record not
\* FOR_SALE or short of stock fails the whole event.
C7_Validation == [][C7_RejectStep]_vars /\ []C7_OrdersAreValid

\* C7 witness: the event of c6 (2 of record 1) failed against a stock of 1.
C7_Witness ==
  \E p \in Procs :
    /\ req[p].pc = "failed" /\ req[p].log = "line item rejected"
    /\ req[p].sess.id = "c6" /\ records[1].quantity = 1
    /\ orders = {}

\* ------------------------------------------------------------------ C8
\* C8: a delivery is answered 200 exactly if an Order for its checkout id
\* exists when it is answered.
C8_NoSilentDrop ==
  \A p \in Procs :
    Ended(p) => (req[p].resp = 200 <=> OrderExists(req[p].sess.id))

\* ------------------------------------------------------------------ C9
\* The line items of the committing request p that take their record to 0.
SoldOutLines(p) ==
  {i \in 1..Len(req[p].sess.items) :
     req[p].tx.recs[req[p].sess.items[i].rid].quantity = 0}

Committing(p) == req[p].pc = "commit" /\ req'[p].pc = "post"

\* C9 as claimed: after the commit the record is SOLD and its listing is no
\* longer live on Discogs, and no replacement was created.
C9_SoldOutStepClaimed ==
  \A p \in Procs : Committing(p) =>
    \A i \in SoldOutLines(p) :
      LET rid == req[p].sess.items[i].rid
      IN  /\ records'[rid].status = "SOLD"
          /\ records[rid].listing # Null => records[rid].listing \notin DOMAIN remote'
          /\ \A k \in CallsOfLine(req[p], i) : req[p].calls[k].op # "create"

C9_SoldOutClaimed == [][C9_SoldOutStepClaimed]_vars

\* C9 as amended: after the commit the record is SOLD with quantity 0 and
\* keeps its listing id; the request issued at most one Discogs call for
\* it, a delete and never a create; the listing is gone from Discogs if
\* that delete was answered ok.
C9_SoldOutStep ==
  \A p \in Procs : Committing(p) =>
    \A i \in SoldOutLines(p) :
      LET rid == req[p].sess.items[i].rid
      IN  /\ records'[rid].status = "SOLD" /\ records'[rid].quantity = 0
          /\ records'[rid].listing = records[rid].listing
          /\ Cardinality(CallsOfLine(req[p], i)) <= 1
          /\ \A k \in CallsOfLine(req[p], i) :
               /\ req[p].calls[k].op = "delete"
               /\ req[p].calls[k].res = "ok" =>
                    req[p].calls[k].listing \notin DOMAIN remote'

C9_SoldOut == [][C9_SoldOutStep]_vars

\* C9 witness: the settlement of c1 took record 1 from 1 to 0: it is SOLD
\* and listing 1 was deleted.
C9_Witness ==
  \E p \in Procs :
    /\ req[p].pc = "post" /\ req[p].sess.id = "c1"
    /\ stock0[1] = 1 /\ records[1].quantity = 0 /\ records[1].status = "SOLD"
    /\ Len(req[p].calls) = 1 /\ req[p].calls[1].res = "ok"
    /\ 1 \notin DOMAIN remote

NonNegativeAndSoldOut ==
  \A r \in DOMAIN records :
    /\ records[r].quantity >= 0
    /\ records[r].status = "SOLD" => records[r].quantity = 0

\* ----------------------------------------------------------------- C11
\* The line items of the committing request p that leave stock on a record
\* that had a listing id.
PartialSaleLines(p) ==
  {i \in 1..Len(req[p].sess.items) :
     LET rid == req[p].sess.items[i].rid
     IN  req[p].tx.recs[rid].quantity > 0 /\ records[rid].listing # Null}

\* The listings the request deleted on Discogs.
DeletedBy(r) ==
  {r.calls[k].listing : k \in {j \in 1..Len(r.calls) :
                                 r.calls[j].op = "delete" /\ r.calls[j].res = "ok"}}

\* C11: a settlement that commits a partial sale of a listed record leaves
\* on the record a listing id that is live on Discogs and is not a listing
\* this settlement deleted.
C11_AgreementStep ==
  \A p \in Procs : Committing(p) =>
    \A i \in PartialSaleLines(p) :
      LET rid == req[p].sess.items[i].rid
      IN  /\ records'[rid].listing \in DOMAIN remote'
          /\ records'[rid].listing \notin DeletedBy(req[p])

C11_MirrorAgreement == [][C11_AgreementStep]_vars

\* ----------------------------------------------------------------- C12
CartOf(items, u) == {ci \in items : ci.user = u}

\* C12 (commit): the commit of a settlement for buyer U leaves U's cart row
\* with no cart item and every other cart as it was.
C12_CommitStep ==
  \A p \in Procs : Committing(p) =>
    LET u == req[p].sess.userId
    IN  /\ CartOf(cartItems', u) = {}
        /\ u \in carts' /\ carts' = carts
        /\ \A v \in Users \ {u} : CartOf(cartItems', v) = CartOf(cartItems, v)

\* C12 (only then): cart items go away only in the step that commits the
\* Order of their owner's session.
C12_OnlyWithOrder ==
  cartItems' # cartItems =>
    \E p \in Procs :
      /\ Committing(p)
      /\ ~OrderExists(req[p].sess.id)
      /\ \E o \in orders' : o.checkoutId = req[p].sess.id /\ o.userId = req[p].sess.userId
      /\ cartItems \ cartItems' = CartOf(cartItems, req[p].sess.userId)

\* C12: a committed settlement empties the buyer's cart, keeps the cart row
\* and leaves the other carts alone; the items go with the Order or not at all.
C12_CartCleared == [][C12_CommitStep /\ C12_OnlyWithOrder]_vars

\* C12 witness: the settlement of c2 committed: the two items of u2 are
\* gone, the item of u1 is still in u1's cart.
C12_Witness ==
  \E p \in Procs :
    /\ req[p].pc = "post" /\ req[p].sess.id = "c2"
    /\ OrderExists("c2")
    /\ cartItems = { [user |-> "u1", rid |-> 1, qty |-> 1] }
    /\ carts = Users

\* ----------------------------------------------------------------- C13
\* C13 (step): what follows the commit changes nothing in the store or on
\* Discogs and ends in the answer 200, whether the mail was sent or not.
C13_PostStep ==
  \A p \in Procs :
    (req[p].pc = "post" /\ req'[p] # req[p]) =>
      /\ req'[p].pc = "settled" /\ req'[p].resp = 200
      /\ store' = store /\ remote' = remote
      /\ failedIds' = failedIds

\* C13 (no second run): a delivery opens a transaction only for a session
\* without Order.
C13_NoRerun ==
  \A p \in Procs :
    (req[p].pc # "tx_order" /\ req'[p].pc = "tx_order") => ~OrderExists(req'[p].sess.id)

\* C13 (state): a settled request left its Order behind, whether the mail
\* was sent or not.
C13_StaysCommitted ==
  \A p \in Procs :
    req[p].pc = "settled" =>
      /\ Cardinality(OrdersOf(req[p].sess.id)) = 1
      /\ \A o \in OrdersOf(req[p].sess.id) :
           Cardinality(ItemsOfOrder(o.id)) = Len(req[p].sess.items)
      /\ CartOf(cartItems, req[p].sess.userId) = {}

\* C13: a failure after the commit is logged only: the settlement stays
\* committed, the event is acknowledged, and it is not settled again.
C13_BestEffortMail ==
  [][C13_PostStep /\ C13_NoRerun]_vars /\ []C13_StaysCommitted

\* C13 witness: the event of c1 was settled and acknowledged without mail,
\* and its second delivery was acknowledged as already processed.
C13_Witness ==
  /\ req[1].pc = "acked" /\ req[1].log = "already processed"
  /\ req[1].sess.id = "c1" /\ deliveries = 2
  /\ ~req[1].mailed
  /\ Cardinality(OrdersOf("c1")) = 1
  /\ records[1].quantity = stock0[1] - 1

\* ----------------------------------------------------------------- C14
\* C14 (state): every OrderItem names a record of the mirror.
C14_ItemsHaveRecord == \A i \in orderItems : i.recordId \in DOMAIN records

\* C14 (step): no step removes a record that an OrderItem names.
C14_NoReferencedDelete ==
  \A r \in DOMAIN records \ DOMAIN records' : ~Referenced(r)

\* C14: order history keeps its records: in every state every OrderItem's
\* record exists, and no operation deletes a record an OrderItem names.
C14_ReferentialIntegrity ==
  []C14_ItemsHaveRecord /\ [][C14_NoReferencedDelete]_vars

\* C14 witness: performInitialSync ran against a mirror with an order on
\* one of its records and was refused; the records are all there.
C14_Witness ==
  /\ sync.result = Failure("initial sync")
  /\ orderItems # {}
  /\ DOMAIN records = DOMAIN mirror0

\* ----------------------------------------------------------------- C15
\* The delete set syncDiscogsInventory has just computed names no record of
\* an OrderItem.
C15_GuardedStep ==
  (sync.pc = "diff" /\ sync'.pc = "apply") =>
    \A r \in sync'.del : ~Referenced(r)

\* The delete set performDeltaSync has just computed selects no record of
\* an OrderItem.
C15_LegacyStep ==
  (sync.pc = "delta" /\ sync'.pc = "delta_apply") =>
    \A r \in HoldersOf(sync'.del) : ~Referenced(r)

\* Holds: the part of C15 about syncDiscogsInventory.
C15_GuardedDeleteSet == [][C15_GuardedStep]_vars

\* C15: whatever the feed and the mirror, the delete set a reconcile run
\* computes contains no record that an OrderItem references.
C15_DeleteSetUnreferenced == [][C15_GuardedStep /\ C15_LegacyStep]_vars

\* ----------------------------------------------------------------- C16
\* Between the decision to delete a record and the delete, no OrderItem on
\* that record is committed.
C16_NoItemBetween ==
  sync.pc = "apply" => \A r \in sync.del : ~Referenced(r)

\* The transaction of a run of syncDiscogsInventory does not fail.
C16_RunNeverFails == sync.result # Failure("delta processing")

\* C16: the guard is evaluated inside the transaction of the run: a
\* settlement can neither commit an OrderItem on a record the run has
\* decided to delete nor make the run's transaction fail.
C16_GuardInsideTx == [](C16_NoItemBetween /\ C16_RunNeverFails)

\* ----------------------------------------------------------------- C17
\* The records a step added to the mirror.
Added == DOMAIN records' \ DOMAIN records

\* The transaction of a run of syncDiscogsInventory ends with success.
ApplySucceeds == sync.pc = "apply" /\ sync'.pc = "idle" /\ sync'.result.success

\* C17: a run creates exactly one FOR_SALE record for each listing of its
\* create set (the valid listings whose id no record read holds and that no
\* record without listing id took over), nothing else, and reports their
\* number as created.
C17_CreateStep ==
  ApplySucceeds =>
    /\ sync'.result.created = Cardinality(sync.create)
    /\ \A l \in sync.create :
         Cardinality({r \in Added : /\ records'[r].listing = l
                                     /\ records'[r].status = "FOR_SALE"}) = 1
    /\ \A r \in Added : records'[r].listing \in sync.create

C17_CreateSet == [][C17_CreateStep]_vars

\* ----------------------------------------------------------------- C18
\* A run of syncDiscogsInventory returns with success.
RunSucceeds == sync.pc \in {"diff", "apply"} /\ sync'.pc = "idle" /\ sync'.result.success

\* The records read whose listing id is not among the listings fetched.
StaleListed ==
  {r \in DOMAIN sync.existing : /\ sync.existing[r].listing # Null
                                /\ sync.existing[r].listing \notin DOMAIN sync.feed}

\* Holds: a stale record is deleted if no OrderItem names it and is left
\* as it was otherwise.
C18_StaleStep ==
  RunSucceeds =>
    \A r \in StaleListed :
      IF Referenced(r) THEN r \in DOMAIN records' /\ records'[r] = records[r]
                       ELSE r \notin DOMAIN records'

C18_StaleHandled == [][C18_StaleStep]_vars

\* The result of the run reports the deletions skipped.
C18_SkippedStep ==
  RunSucceeds =>
    LET guarded == {r \in StaleListed : Referenced(r)}
    IN  guarded # {} =>
          /\ "skipped" \in DOMAIN sync'.result
          /\ sync'.result.skipped = Cardinality(guarded)

\* C18: a stale FOR_SALE record is deleted if unreferenced, and is
\* otherwise left unchanged and reported as one skipped deletion in the
\* result of the run.
C18_StaleRecords == [][C18_StaleStep /\ C18_SkippedStep]_vars

\* ----------------------------------------------------------------- C19
\* The records a step removed from the mirror, and those it changed.
Removed == DOMAIN records \ DOMAIN records'
Changed == {r \in DOMAIN records \cap DOMAIN records' : records'[r] # records[r]}

\* C19 (step): a successful run reports as created, updated and deleted
\* the numbers of records it added, changed and removed; the mirror after
\* it has (before) - deleted + created records; a record whose deletion the
\* guard skipped is among the unchanged ones.
C19_AccountingStep ==
  RunSucceeds =>
    /\ sync'.result.created = Cardinality(Added)
    /\ sync'.result.updated = Cardinality(Changed)
    /\ sync'.result.deleted = Cardinality(Removed)
    /\ Cardinality(DOMAIN records') =
         Cardinality(DOMAIN records) - sync'.result.deleted + sync'.result.created
    /\ \A r \in DOMAIN sync.existing :
         (r \in Stale(sync.existing, CurrentData(sync.feed)) /\ Referenced(r)) =>
           r \in DOMAIN records' \ Changed

C19_Witness ==
  /\ sync.pc = "idle" /\ sync.runs = 1
  /\ sync.result.success
  /\ sync.result.created = 1 /\ sync.result.updated = 1 /\ sync.result.deleted = 1
  /\ DOMAIN records = {1, 3}

\* ----------------------------------------------------------------- C20
\* A run starts and does not obtain its first page: currentPage has not
\* moved past 1.
FirstPageFails == sync.pc = "idle" /\ sync'.runs = sync.runs + 1 /\ sync'.page # 2

\* The run aborts with a failure result.
C20_AbortStep ==
  FirstPageFails => sync'.pc = "idle" /\ ~sync'.result.success

\* A run that did not obtain its first page writes no record.
C20_NoWriteStep == (sync.pc # "idle" /\ sync.page = 1) => records' = records

\* C20: a first page that cannot be obtained (the request throws or the
\* response has no listings) aborts the run with a failure result, and no
\* record is created, updated or deleted.
C20_FirstPageFatal == [][C20_AbortStep /\ C20_NoWriteStep]_vars

\* The second half of C20 alone: no write after a first page without
\* listings.
C20_NoWriteAfterMalformed == [][C20_NoWriteStep]_vars

\* ----------------------------------------------------------------- C21
\* The request for a page after the first fails: currentPage does not move.
LaterPageFails == sync.pc = "fetch" /\ sync' # sync /\ sync'.page # sync.page + 1

\* The run stops paginating and goes on with the listings gathered.
C21_GoesOnStep ==
  LaterPageFails => /\ sync'.pc = "read"
                    /\ sync'.feed = sync.feed
                    /\ records' = records

\* The part of C21 that holds: a later page without listings ends the loop
\* and the run goes on with the pages before it.
C21_MalformedStep ==
  (LaterPageFails /\ sync'.pc # "idle") =>
    sync'.pc = "read" /\ sync'.feed = sync.feed /\ sync'.fetched = sync.fetched

C21_MalformedNonFatal == [][C21_MalformedStep]_vars

\* C21: a page after the first that fails, by a throw or by a malformed
\* response, ends the pagination only: the run computes and applies its
\* sets from the pages before it and does not return a failure.
C21_LaterPageNonFatal == [][C21_GoesOnStep]_vars

\* ----------------------------------------------------------------- C22
\* A run of syncDiscogsInventory is between its start and its end.
Running(run) == run.pc # "idle"

\* C22: at most one run of syncDiscogsInventory is under way at any time,
\* whatever started it.
C22_SingleFlight == [](~(Running(sync) /\ Running(refresh)))

\* ----------------------------------------------------------------- C23
\* The valid listings fetched that have the release of the record r read
\* without listing id and that no record read holds.
Unmatched(run, r) ==
  {l \in DOMAIN CurrentData(run.feed) :
     /\ run.feed[l].release = run.existing[r].release
     /\ l \notin ExistingListings(run.existing)}

\* The updates by record id of a run: its adoptions.
Adoptions(run) == {u \in run.upd : u.by = "id"}

\* C23 (sets): each listing is adopted by at most one record, each record
\* adopts at most one listing, and an adopted listing is not in the create
\* set.
C23_SetsStep ==
  (sync.pc = "diff" /\ sync'.pc = "apply") =>
    /\ \A u \in Adoptions(sync') : u.listing \notin sync'.create
    /\ \A u, v \in Adoptions(sync') : (u.listing = v.listing \/ u.key = v.key) => u = v
    /\ \A r \in DOMAIN sync.existing :
         (sync.existing[r].listing = Null /\ Unmatched(sync, r) # {}) =>
           \E u \in Adoptions(sync') : u.key = r /\ u.listing \in Unmatched(sync, r)

\* C23 (effect): the run stores the listing id on the record and adds no
\* record for that listing.
C23_EffectStep ==
  RunSucceeds =>
    \A r \in DOMAIN sync.existing :
      (sync.existing[r].listing = Null /\ Unmatched(sync, r) # {}) =>
        /\ r \in DOMAIN records'
        /\ records'[r].listing \in Unmatched(sync, r)
        /\ records'[r].quantity = records[r].quantity
        /\ \A n \in Added : records'[n].listing # records'[r].listing

AdoptionsIn(run, order) ==
  {u \in Deltas(run.existing, Positioned(CurrentData(run.feed), order)).upd : u.by = "id"}

\* C24 (step): the adoptions the run computed are those it computes for the
\* same listings and records in any other order of the feed.
C24_OrderStep ==
  (sync.pc = "diff" /\ sync'.pc = "apply") =>
    \A order \in FeedOrders : Adoptions(sync') = AdoptionsIn(sync, order)

C25_UniqueListing ==
  \A r1, r2 \in DOMAIN records :
    (records[r1].listing # Null /\ records[r1].listing = records[r2].listing) => r1 = r2

\* C25 witness: a settlement stored the listing id of a relist on record 1
\* and a run of syncDiscogsInventory went through its transaction after
\* that.
C25_Witness ==
  /\ 1 \in DOMAIN records /\ records[1].listing = 4
  /\ 4 \in DOMAIN remote
  /\ sync.pc = "idle" /\ sync.result.success
  /\ sync.result.created + sync.result.updated + sync.result.deleted > 0

\* ----------------------------------------------------------------- C26
\* The quantity of the cart item of u for rid in a set of CartItem rows.
QtyIn(items, u, rid) ==
  IF \E ci \in items : ci.user = u /\ ci.rid = rid
    THEN (CHOOSE ci \in items : ci.user = u /\ ci.rid = rid).qty
    ELSE 0

\* What the contract of addItem asks for.
C26_Accepts(u, rid, qty) ==
  /\ qty > 0
  /\ rid \in DOMAIN records
  /\ records[rid].status = "FOR_SALE"
  /\ InCart(u, rid) + qty <= records[rid].quantity

C26_AddStep(u, rid, qty) ==
  AddItemController(u, rid, qty) =>
    /\ (reply'.status = 200) <=> C26_Accepts(u, rid, qty)
    /\ C26_Accepts(u, rid, qty) =>
         /\ QtyIn(cartItems', u, rid) = InCart(u, rid) + qty
         /\ Cardinality({ci \in cartItems' : ci.user = u /\ ci.rid = rid}) = 1
    /\ ~C26_Accepts(u, rid, qty) => CartOf(cartItems', u) = CartOf(cartItems, u)

\* C26: addItemToCart(user, recordId, qty) succeeds if and only if qty > 0,
\* the record exists and is FOR_SALE and the quantity in the user's cart
\* plus qty is at most the record's quantity; on success the cart item has
\* exactly that sum, on a rejection the user's cart items are unchanged.
C26_AddItemContract ==
  [][reply'.op = "addItem" =>
       C26_AddStep(reply'.user, reply'.rid, reply'.qty)]_vars

\* C26 witness: u1 had one of record 1 in the cart, added another one with
\* two in stock, and has two.
C26_Witness ==
  /\ cartOps = 1
  /\ reply = [op |-> "addItem", status |-> 200, user |-> "u1", rid |-> 1, qty |-> 1]
  /\ mirror0 = records
  /\ records[1].quantity = 2
  /\ QtyIn(cartItems, "u1", 1) = 2
  /\ CartOf(cartItems, "u2") = CartOf(InitialCartItems, "u2")

\* ----------------------------------------------------------------- C27
\* What the contract of updateItem asks for.
C27_Allowed(u, owner, rid, qty) ==
  /\ qty > 0
  /\ ItemsOf(owner, rid) # {}
  /\ owner = u
  /\ rid \in DOMAIN records
  /\ qty <= records[rid].quantity

\* The carts of the users other than u are as they were.
C27_OthersKept(u) ==
  \A other \in Users \ {u} : CartOf(cartItems', other) = CartOf(cartItems, other)

C27_UpdateStep(u, owner, rid, qty) ==
  UpdateItemController(u, owner, rid, qty) =>
    /\ cartItems' # cartItems => C27_Allowed(u, owner, rid, qty)
    /\ ~C27_Allowed(u, owner, rid, qty) =>
         reply'.status # 200 /\ cartItems' = cartItems
    /\ C27_OthersKept(u)

C27_RemoveStep(u, owner, rid) ==
  RemoveItemController(u, owner, rid) => C27_OthersKept(u)

\* C27: updateCartItemQuantity(user, itemId, qty) changes a cart item only
\* if qty > 0, the item exists, it belongs to the caller's cart and qty is
\* at most the live quantity of its record; every other call is rejected
\* and changes no cart item. No call of updateCartItemQuantity or
\* removeItemFromCart changes or removes an item of another user's cart.
C27_OwnCartOnly ==
  [][/\ reply'.op = "updateItem" =>
          C27_UpdateStep(reply'.user, reply'.owner, reply'.rid, reply'.qty)
     /\ reply'.op = "removeItem" =>
          C27_RemoveStep(reply'.user, reply'.owner, reply'.rid)]_vars

\* C27 witness: u2 set the item of record 1 from one to two, with two in
\* stock, and the cart of u1 is as it was.
C27_Witness ==
  /\ cartOps = 1
  /\ reply = [op |-> "updateItem", status |-> 200, user |-> "u2", owner |-> "u2",
               rid |-> 1, qty |-> 2]
  /\ records[1].quantity = 2
  /\ QtyIn(cartItems, "u2", 1) = 2
  /\ QtyIn(cartItems, "u1", 1) = 1

\* ----------------------------------------------------------------- C28
\* The cart item of `owner` for rid does not exist.
C28_Absent(owner, rid) == ItemsOf(owner, rid) = {}

C28_RemoveStep(u, owner, rid) ==
  (RemoveItemController(u, owner, rid) /\ C28_Absent(owner, rid)) =>
    /\ reply'.status = 200
    /\ cartItems' = cartItems

Min(a, b) == IF a <= b THEN a ELSE b

\* Guest item g names a record that exists, is FOR_SALE and has stock, with
\* a positive quantity.
C29_Mergeable(g) ==
  /\ IsObject(g)
  /\ g.rid # NoRec /\ g.qty > 0
  /\ Sellable(g.rid)
  /\ records[g.rid].quantity >= 1

C29_MergeStep(u, guest) ==
  MergeCartController(u, guest) =>
    \A i \in 1..Len(guest) :
      C29_Mergeable(guest[i]) =>
        QtyIn(cartItems', u, guest[i].rid) =
          Min(InCart(u, guest[i].rid) + guest[i].qty, records[guest[i].rid].quantity)

\* C29: after mergeCart(user, items), for every guest item whose record
\* exists, is FOR_SALE and has stock, the user's cart item for the record
\* has the quantity min(existing + guest quantity, live quantity), for
\* every guest list, lists that name a record more than once included.
\* Violated.
C29_CapsAtStock ==
  [][reply'.op = "merge" => C29_MergeStep(reply'.user, reply'.guest)]_vars

\* The same for the guest lists whose elements are all objects. Violated by
\* a list that names a record twice.
C29_CapsAtStockObjects ==
  [][(/\ reply'.op = "merge"
      /\ \A i \in 1..Len(reply'.guest) : IsObject(reply'.guest[i]))
       => C29_MergeStep(reply'.user, reply'.guest)]_vars

\* Holds: a quantity mergeCart writes is at most the stock of the record.
C29_WrittenWithinStock ==
  [][reply'.op = "merge" =>
       \A ci \in cartItems' \ cartItems : ci.qty <= records[ci.rid].quantity]_vars

\* Holds: a guest list of objects that names no record twice and is merged
\* leaves min(existing + guest quantity, live quantity) for every item
\* that can be merged.
C29_CapsAtStockOnce ==
  [][(/\ reply'.op = "merge"
      /\ \A i \in 1..Len(reply'.guest) : IsObject(reply'.guest[i])
      /\ \A i, j \in 1..Len(reply'.guest) :
           reply'.guest[i].rid = reply'.guest[j].rid => i = j)
       => C29_MergeStep(reply'.user, reply'.guest)]_vars

\* ----------------------------------------------------------------- C30
\* Guest item g is one mergeCart is to skip: malformed (null, without
\* record id, with a quantity that is not positive), of an unknown record,
\* of a record that is not FOR_SALE or of one without stock.
C30_Bad(g) ==
  \/ ~IsObject(g)
  \/ g.rid = NoRec \/ g.qty <= 0
  \/ ~Sellable(g.rid)
  \/ records[g.rid].quantity <= 0

\* The guest list without the items to skip.
C30_Good(guest) == SelectSeq(guest, LAMBDA g : ~C30_Bad(g))

\* The answer is 200 and the cart is the one the other items alone give:
\* the rows the skipped items name are untouched by them and every other
\* item is merged, wherever the skipped ones stand.
C30_MergeStep(u, guest) ==
  MergeCartController(u, guest) =>
    /\ reply'.status = 200
    /\ cartItems' = Merge(cartItems, u, C30_Good(guest), 1).items

\* C30: a guest item that is malformed, names an unknown record, a record
\* that is not FOR_SALE or one with zero stock leaves the user's cart row
\* unchanged and causes no error, and every other guest item of the call
\* is merged, whatever the position of the bad item. Violated.
C30_SkipsBadItems ==
  [][reply'.op = "merge" => C30_MergeStep(reply'.user, reply'.guest)]_vars

\* Holds: the same for the guest lists whose elements are all objects.
C30_SkipsBadObjects ==
  [][(/\ reply'.op = "merge"
      /\ \A i \in 1..Len(reply'.guest) : IsObject(reply'.guest[i]))
       => C30_MergeStep(reply'.user, reply'.guest)]_vars

\* ----------------------------------------------------------------- C31
C31_UpsertStep(p) ==
  AddUpsert(p) =>
    QtyIn(cartItems', cartCalls[p].user, cartCalls[p].rid) <=
      records[cartCalls[p].rid].quantity

\* C31: whatever the interleaving of two cart mutations of one user on one
\* record, no write leaves a cart item with more than the record's
\* quantity: two calls of addItemToCart never both pass the stock check
\* on the same cart quantity and both add. Violated.
C31_CheckThenActAtomic == [][\A p \in Procs : C31_UpsertStep(p)]_vars

\* ----------------------------------------------------------------- C32
\* Holds: a cart has at most one item per record and every item has a
\* positive quantity (carts is a set of user ids: one cart per user).
C32_Structure ==
  /\ \A ci \in cartItems : ci.qty > 0
  /\ \A c1, c2 \in cartItems : (c1.user = c2.user /\ c1.rid = c2.rid) => c1 = c2

\* C32: each user has at most one cart, each cart at most one item per
\* record, every item a positive quantity, and getCart for a user without
\* cart creates the cart without failing, concurrent first calls included.
\* Violated.
C32_CartInvariant ==
  /\ C32_Structure
  /\ \A p \in Procs : cartCalls[p].op = "getCart" => cartCalls[p].error = NoError

\* ----------------------------------------------------------------- C33
\* The items of the cart of the user of the request answered last.
C33_Cart == CartOf(cartItems, reply'.user)

\* Holds: a session is created only for a cart that is not empty and whose
\* items all have a FOR_SALE record with enough stock, and each line item
\* carries the record id and the quantity of a cart item.
C33_OnlyValidCarts ==
  [][(reply'.op = "checkout" /\ reply'.status = 200) =>
       /\ C33_Cart # {}
       /\ \A ci \in C33_Cart : Sellable(ci.rid) /\ records[ci.rid].quantity >= ci.qty
       /\ \A li \in reply'.line_items :
            \E ci \in C33_Cart : ci.rid = li.rid /\ ci.qty = li.qty]_vars

\* C33: createCheckoutSession creates a session only if the cart is not
\* empty and every item's record exists, is FOR_SALE and has the item's
\* quantity in stock, and is rejected otherwise; every line item of a
\* session carries the record id of its cart item and the line items cover
\* every item of the cart. Violated.
C33_SessionCoversCart ==
  [][(reply'.op = "checkout" /\ reply'.status = 200) =>
       /\ C33_Cart # {}
       /\ \A ci \in C33_Cart : Sellable(ci.rid) /\ records[ci.rid].quantity >= ci.qty
       /\ \A li \in reply'.line_items :
            \E ci \in C33_Cart : ci.rid = li.rid /\ ci.qty = li.qty
       /\ \A ci \in C33_Cart : \E li \in reply'.line_items : li.rid = ci.rid]_vars

\* ----------------------------------------------------------------- C34
\* C34: orders are permanent and immutable: every Order and every
\* OrderItem (recordId, price and quantity as written) of a state is still
\* there, unchanged, after any step: a reconcile run's updates and deletes,
\* the full-replace sync, a cart operation, a later settlement, a duplicate
\* event.
C34_OrdersImmutable ==
  [][orders \subseteq orders' /\ orderItems \subseteq orderItems']_vars

\* C34 witness: a settlement added an order to an earlier one, and a
\* reconcile run that changed the mirror has succeeded since.
C34_Witness ==
  /\ Cardinality(orders) >= 2
  /\ sync.runs >= 1
  /\ sync.result.success
  /\ records # mirror0
  /\ \E o \in orders : \E i \in orderItems : i.orderId = o.id /\ o.id < nextOrder - 1

\* ----------------------------------------------------------------- C35
\* The transaction of a run of syncDiscogsInventory has just ended.
C35_ApplyStep == sync.pc = "apply" /\ sync'.pc = "idle"

\* The rows of the mirror a step changed.
C35_Changed ==
  {r \in DOMAIN records \cap DOMAIN records' : records'[r] # records[r]}

\* C35 (failure): a run whose delete step or create step failed returns a
\* failure result and has committed nothing.
C35_FailureCommitsNothing ==
  [][(C35_ApplyStep /\ ~sync'.result.success) => records' = records]_vars

\* C35 (success): a run that returns success has committed its deletes
\* and its creates, whether or not one of its updates failed, and its
\* updated count counts the updates that succeeded.
C35_SuccessCommitted ==
  (C35_ApplyStep /\ sync'.result.success) =>
    /\ DOMAIN records \ DOMAIN records' = sync.del \cap DOMAIN records
    /\ Cardinality(DOMAIN records \ DOMAIN records') = sync'.result.deleted
    /\ Cardinality(DOMAIN records' \ DOMAIN records) = sync'.result.created
    /\ Cardinality(C35_Changed) <= sync'.result.updated

C36_Kept == DOMAIN records \cap DOMAIN records'

\* The records the line items of the session of request p name.
C36_LineRecords(p) ==
  {req[p].sess.items[i].rid : i \in DOMAIN req[p].sess.items}

\* C36 (reconcile): a step of a run of syncDiscogsInventory,
\* performInitialSync or performDeltaSync leaves the quantity of every
\* record it keeps as it was; a record keeps its id.
C36_ReconcileStep ==
  (sync' # sync) =>
    \A r \in C36_Kept : records'[r].quantity = records[r].quantity

\* C36 (settlement): a step of a webhook request creates and deletes no
\* record, and changes quantity, status and listing id of records its line
\* items name and nothing else.
C36_SettlementStep ==
  \A p \in Procs : (req'[p] # req[p]) =>
    /\ DOMAIN records' = DOMAIN records
    /\ \A r \in DOMAIN records :
         /\ records'[r].release = records[r].release
         /\ records'[r].price = records[r].price
         /\ records'[r] # records[r] => r \in C36_LineRecords(p)

\* C36: write footprint on records: a reconcile run never changes the
\* quantity or the id of an existing record; a settlement changes only
\* quantity, status and listing id of the records of its line items and
\* creates and deletes none.
C36_WriteFootprint == [][C36_ReconcileStep /\ C36_SettlementStep]_vars

\* C36 (cart): no request of the cart routes, checkout-session creation
\* included, changes table Record.
C36_CartLeavesRecords == [][records' = records]_vars

\* C36 witness: a settlement took one copy of record 1 and relisted it, a
\* reconcile run of the same behaviour created or updated records, and the
\* decrement is there.
C36_Witness ==
  /\ 1 \in DOMAIN records
  /\ records[1].quantity = mirror0[1].quantity - 1
  /\ records[1].quantity > 0
  /\ records[1].listing # mirror0[1].listing
  /\ sync.result.success
  /\ sync.result.created + sync.result.updated > 0

\* ----------------------------------------------------------------- C37
\* The records that are not for sale.
C37_Inactive == {r \in DOMAIN records : records[r].status \in {"SOLD", "DRAFT"}}

\* The transaction of a run of syncDiscogsInventory leaves every SOLD or
\* DRAFT record as it is.
C37_ApplyKeepsInactive ==
  (sync.pc = "apply" /\ sync'.pc = "idle") =>
    \A r \in C37_Inactive : r \in DOMAIN records' /\ records'[r] = records[r]

C38_SecondRun ==
  /\ sync.pc = "idle" /\ sync.result.success
  /\ sync.result.totalForSale = Cardinality(DOMAIN remote)
  /\ refresh.pc = "diff"
  /\ refresh.fetched = Cardinality(DOMAIN remote)

\* The sets of the second run are empty: it ends without a transaction and
\* reports created = 0, updated = 0, deleted = 0.
C38_NothingToDo ==
  C38_SecondRun =>
    /\ refresh'.pc = "idle"
    /\ refresh'.result.success
    /\ refresh'.result.created = 0
    /\ refresh'.result.updated = 0
    /\ refresh'.result.deleted = 0

\* C38: reconcile converges and is idempotent: after a successful run with
\* no concurrent writer, a second run against the same feed computes an
\* empty create, update and delete set, reports three zeros and leaves the
\* mirror unchanged.
C38_Idempotent == [][C38_NothingToDo]_vars

\* C38 (mirror): after a successful run on the whole feed no step of a
\* second run on the whole feed changes the mirror.
C38_MirrorUnchanged ==
  [][(sync.pc = "idle" /\ sync.result.success
        /\ sync.result.totalForSale = Cardinality(DOMAIN remote)
        /\ refresh.pc = "apply"
        /\ refresh.fetched = Cardinality(DOMAIN remote))
      => records' = records]_vars

\* ----------------------------------------------------------------- C39
\* Record r has nothing for sale in the seller's whole inventory: its
\* listing is not there, or, for a record without listing id, no listing
\* of its release is.
C39_Withdrawn(r) ==
  IF records[r].listing # Null
    THEN records[r].listing \notin DOMAIN remote
    ELSE \A l \in DOMAIN remote : remote[l].release # records[r].release

\* C39: no deletion from a truncated fetch: a run of syncDiscogsInventory
\* deletes a record only if its listing is absent from the complete remote
\* feed, also when its pagination stopped early.
C39_NoDeleteFromTruncatedFetch ==
  [][(sync.pc = "apply") =>
       \A r \in DOMAIN records \ DOMAIN records' : C39_Withdrawn(r)]_vars

\* C39 (complete fetch): a run that fetched every listing of the inventory
\* deletes only records whose listing is absent from it.
C39_CompleteFetchDeletes ==
  [][(sync.pc = "apply" /\ sync.fetched = Cardinality(DOMAIN remote)) =>
       \A r \in DOMAIN records \ DOMAIN records' : C39_Withdrawn(r)]_vars

\* ----------------------------------------------------------------- C40
\* The Discogs calls of request p that create a listing for line i.
C40_Creates(p, i) ==
  {k \in CallsOfLine(req[p], i) : req[p].calls[k].op = "create"}

\* C40 (state): every create of a replacement listing comes right after
\* the delete of the old listing of the same line item, and a line item
\* has at most one create.
C40_DeleteBeforeCreate ==
  \A p \in Procs : \A k \in 1..Len(req[p].calls) :
    req[p].calls[k].op = "create" =>
      /\ k > 1
      /\ req[p].calls[k - 1].op = "delete"
      /\ req[p].calls[k - 1].line = req[p].calls[k].line
      /\ Cardinality(C40_Creates(p, req[p].calls[k].line)) = 1

\* C40 (step): once the delete of the old listing is answered for a line
\* item with stock left, whatever the answer, the request is at the create
\* of the replacement and has not failed; the create is one call and the
\* request leaves it for the next line item.
C40_RelistStep ==
  \A p \in Procs :
    /\ (req[p].pc = "rem_delete" /\ Len(req'[p].calls) = Len(req[p].calls) + 1
          /\ RemainingQty(req[p]) > 0)
         => req'[p].pc = "rem_create" /\ req'[p].idx = req[p].idx
    /\ (req[p].pc = "rem_create" /\ Len(req'[p].calls) > Len(req[p].calls))
         => /\ Len(req'[p].calls) = Len(req[p].calls) + 1
            /\ req'[p].calls[Len(req'[p].calls)].op = "create"
            /\ req'[p].pc \in {"item_read", "clear_cart"}

\* C40: relist protocol order: for a line item with stock left on a listed
\* record the settlement attempts the delete of the old listing before the
\* create of the replacement, never the create first, attempts the create
\* exactly once whether the delete succeeded or failed, and a failed delete
\* alone does not fail the settlement.
C40_RelistOrder == []C40_DeleteBeforeCreate /\ [][C40_RelistStep]_vars

\* C40 witness: a settlement whose delete of the old listing failed, whose
\* create of the replacement followed and succeeded, and which committed
\* its order.
C40_Witness ==
  \E p \in Procs :
    /\ Len(req[p].calls) = 2
    /\ req[p].calls[1].op = "delete" /\ req[p].calls[1].res = "neterr"
    /\ req[p].calls[2].op = "create" /\ req[p].calls[2].res = "ok"
    /\ req[p].pc = "post"
    /\ \E o \in orders : o.checkoutId = req[p].sess.id

====
